---- MODULE Spec2Model ----
(***************************************************************************)
(* The notebooks of handson-ml3 as state machines.                         *)
(*                                                                         *)
(* Part 1 (SpecSearch): one hyperparameter search, as the notebooks run it *)
(* through GridSearchCV / RandomizedSearchCV with n_jobs=-1: the candidate *)
(* list is built, the candidates are evaluated by parallel workers in any  *)
(* completion order, the results are ranked and the best one is refit.     *)
(***************************************************************************)
EXTENDS Integers, Sequences, FiniteSets, TLC

(***************************************************************************)
(* Bounds of the model.                                                    *)
(***************************************************************************)
MaxParams == 2
MaxValues == 4
MaxCand == 4
MaxIter == 3
MaxScore == 1
RngMod == 5
NTrain == 3
NTest == 1
ValidSize == 1
SampleSize == 1
NumShards == 2
NMovie == 3
MovieValidSize == 1
MaxEvals == 4
MaxVersion == 2
MaxInst == 4
MaxCandCV == 2
NClasses == 2
n_splits == 3
ImgSide == 2
NAug == 2
PlotShift == 1
MaxStartLr == 2
MaxFactor == 2
MaxNIter == 2
MaxBatches == 3
MaxFits == 2
MaxVoters == 3
NVal == 2
MaxSample == 2
MaxRows == 2
MaxCols == 2
MaxClusters == 2

VARIABLES
    \* ---- one search (GridSearchCV / RandomizedSearchCV object) ----
    strategy,          \* "grid" | "random"
    param_space,       \* param_grid / param_distributions, keys in sorted order
    n_iter,            \* budget of the randomized search (0 for a grid)
    random_state,      \* state of the generator the sampler draws from
    cv_score,          \* what cross-validation yields for candidate i
    pc,                \* "new" | "running" | "done" | "error"
    candidate_params,  \* the candidates, in the order they were generated
    out,               \* results collected from the workers, slot -> outcome
    finished,          \* the candidates whose task has returned
    n_evaluated,       \* number of tasks that have returned
    out_of_order,      \* some task returned before one submitted earlier
    cv_results_,
    best_index_,
    best_params_,
    best_score_,
    best_estimator_,
    \* ---- the same randomized search run twice, side by side ----
    seed2,             \* run -> state its generator starts from
    rng2,              \* run -> current state of its generator
    drawn2,            \* run -> configurations drawn so far
    best2,             \* run -> best configuration, <<>> until selected
    score_peak,        \* the scoring stub: the value of svc__C it scores highest
    \* ---- the data pipelines (Fashion-MNIST TFRecords, movie reviews) ----
    pc13,              \* position of the writing loop in <<train_set, valid_set, test_set>>
    files13,           \* dataset name -> its TFRecord shards (<<>>: directory empty)
    norm_fit,          \* instances norm_layer was adapted on
    model_fit,         \* instances the model has been trained on
    evals13,           \* evaluations made: estimator, what it was fitted on, what on
    movie_valid_seen,  \* instances the movie valid_dataset has yielded
    movie_test_seen,   \* instances the movie test_dataset has yielded
    \* ---- the ensemble notebook (four searches, model_scores) ----
    search07,          \* search name -> its state (unfitted, or best_params_ and best_estimator_)
    defined07,         \* model_scores and eval_grid_search are defined
    model_scores,      \* the three parallel lists model, val_accuracy, y_val_pred
    \* ---- the cached cells of the MNIST notebook ----
    models_dir,        \* file name under models/ -> the artifact pickled there
    data_version,      \* which training data this run has
    grid_version,      \* which param_grid / param_grid2 this run declares
    grid_search,       \* the notebook's variable grid_search
    y_test_predicted,  \* the notebook's variable y_test_predicted
    y_test_predicted_aug, \* the notebook's variable y_test_predicted_aug
    last_cell,         \* what the cell executed last did
    computed,          \* file name -> what the run that saved it computed for it
    \* ---- one search at the level of its fits (candidate, fold), n_jobs=None ----
    y_cv,              \* the labels y passed to fit
    cand_ok,           \* candidate -> its parameter values are valid for the estimator
    names_ok,          \* the parameter names of the grid exist in the estimator
    fit_params_ok,     \* the estimator's fit accepts the extra arguments given to fit
    cv_pc,             \* "new" | "running" | "done" | "error" | "interrupted"
    test_folds,        \* instance -> the fold (0-based) it is held out in
    task,              \* the next (candidate, fold) task, in product order
    task_out,          \* task -> "score" | "nan"
    scored,            \* candidate -> instance -> number of times it was scored
    n_trained,         \* number of fits that completed
    cv_warned,         \* the splitter has warned
    results_cv,        \* the results fit leaves on the search object
    \* ---- the augmentation cells of the MNIST notebook ----
    X_train03,         \* X_train: the training images, each a flat list of pixels
    y_train03,         \* y_train
    X_test03,          \* X_test
    X_train_augmented,
    y_train_augmented,
    aug_pc,            \* "start" | "loop" | "done"
    aug_k,             \* number of shifted images appended so far
    plotted,           \* the images plot_digit has shown
    \* ---- the learning-rate ramp ----
    lr_notebook,       \* "10" | "part_000": which notebook's ramp cell this is
    lr_args,           \* the arguments the cell gives ExponentialLearningRate
    optimizer_lr,      \* model.optimizer.learning_rate
    stop_training,     \* model.stop_training
    callback,          \* the ExponentialLearningRate object, NoCallback before the cell ran
    lr_pc,             \* "idle" | "training" | "raised"
    lr_batch,          \* batches of the current fit whose on_train_batch_end returned
    lr_steps,          \* batches the current fit supplies
    lr_fits,           \* fits started so far
    \* ---- the hard-voting cell ----
    y_val_preds,       \* model_scores["y_val_pred"]: one array of labels per evaluation
    votes,             \* votes: one row per validation instance
    hard_y_val_pred,   \* y_val_pred of the voting cell
    vote_pc,           \* "ready" | "voted"
    \* ---- the stages of the input pipelines ----
    built13,           \* dataset name -> the pipeline get_dataset returned for it
    movie_built,       \* train | valid | test -> the pipeline the movie cell bound to it
    \* ---- the KMeansAppend transformer ----
    kmeans_append,     \* the KMeansAppend object: its n_clusters and, once fitted, n_features_in_ and kmeans_
    kmeans_X,          \* the argument of the last transform call
    kmeans_out,        \* what that call returned, or "ValueError" / "NotFittedError"
    \* ---- one call of shift ----
    shift_image,       \* the image_data argument
    shift_direction,   \* the direction argument, <<>> before the call
    shift_result       \* what shift returned

searchVars == <<strategy, param_space, n_iter, random_state, cv_score, pc,
                candidate_params, out, finished, n_evaluated, out_of_order,
                cv_results_, best_index_, best_params_, best_score_,
                best_estimator_>>

seedVars == <<seed2, rng2, drawn2, best2, score_peak>>

pipeVars == <<pc13, files13, norm_fit, model_fit, evals13, movie_valid_seen,
              movie_test_seen>>

ensembleVars == <<search07, defined07, model_scores>>

cacheVars == <<models_dir, data_version, grid_version, grid_search, y_test_predicted,
               y_test_predicted_aug, last_cell, computed>>

cvVars == <<y_cv, cand_ok, names_ok, fit_params_ok, cv_pc, test_folds, task, task_out,
            scored, n_trained, cv_warned, results_cv>>

augVars == <<X_train03, y_train03, X_test03, X_train_augmented, y_train_augmented,
             aug_pc, aug_k, plotted>>

lrVars == <<lr_notebook, lr_args, optimizer_lr, stop_training, callback, lr_pc, lr_batch,
            lr_steps, lr_fits>>

voteVars == <<y_val_preds, votes, hard_y_val_pred, vote_pc>>

stageVars == <<built13, movie_built>>

kmeansVars == <<kmeans_append, kmeans_X, kmeans_out>>

shiftVars == <<shift_image, shift_direction, shift_result>>

vars == <<searchVars, seedVars, pipeVars, ensembleVars, cacheVars, cvVars, augVars, lrVars,
          voteVars,
          stageVars,
          kmeansVars,
          shiftVars>>

\* what the actions of one part leave alone
notSearch == <<seedVars, pipeVars, ensembleVars, cacheVars, cvVars, augVars, lrVars, voteVars,
          stageVars,
          kmeansVars,
          shiftVars>>

notSeed == <<searchVars, pipeVars, ensembleVars, cacheVars, cvVars, augVars, lrVars, voteVars,
          stageVars,
          kmeansVars,
          shiftVars>>

notPipe == <<searchVars, seedVars, ensembleVars, cacheVars, cvVars, augVars, lrVars, voteVars,
          stageVars,
          kmeansVars,
          shiftVars>>

notEnsemble == <<searchVars, seedVars, pipeVars, cacheVars, cvVars, augVars, lrVars, voteVars,
          stageVars,
          kmeansVars,
          shiftVars>>

notCache == <<searchVars, seedVars, pipeVars, ensembleVars, cvVars, augVars, lrVars, voteVars,
          stageVars,
          kmeansVars,
          shiftVars>>

notCV == <<searchVars, seedVars, pipeVars, ensembleVars, cacheVars, augVars, lrVars, voteVars,
          stageVars,
          kmeansVars,
          shiftVars>>

notAug == <<searchVars, seedVars, pipeVars, ensembleVars, cacheVars, cvVars, lrVars, voteVars,
          stageVars,
          kmeansVars,
          shiftVars>>

notLR == <<searchVars, seedVars, pipeVars, ensembleVars, cacheVars, cvVars, augVars,
          voteVars,
          stageVars,
          kmeansVars,
          shiftVars>>

notVote == <<searchVars, seedVars, pipeVars, ensembleVars, cacheVars, cvVars, augVars,
            lrVars,
          stageVars,
          kmeansVars,
          shiftVars>>

notStage == <<searchVars, seedVars, pipeVars, ensembleVars, cacheVars,
          cvVars, augVars, lrVars, voteVars,
          kmeansVars,
          shiftVars>>

notKmeans == <<searchVars, seedVars, pipeVars, ensembleVars, cacheVars,
          cvVars, augVars, lrVars, voteVars, stageVars,
          shiftVars>>

notShift == <<searchVars, seedVars, pipeVars, ensembleVars, cacheVars,
          cvVars, augVars, lrVars, voteVars, stageVars, kmeansVars>>

(***************************************************************************)
(* Helpers.                                                                *)
(***************************************************************************)
Range(s) == {s[i] : i \in DOMAIN s}

Max(S) == CHOOSE x \in S : \A y \in S : y <= x

Min(S) == CHOOSE x \in S : \A y \in S : x <= y

RECURSIVE Prod(_)
Prod(s) == IF s = <<>> THEN 1 ELSE Head(s) * Prod(Tail(s))

(***************************************************************************)
(* A mean cross-validation score is <<s>>; a candidate whose fit raised    *)
(* gets error_score = nan, written <<>>.                                   *)
(***************************************************************************)
NaN == <<>>

Outcomes == {NaN} \cup {<<s>> : s \in 0..MaxScore}

IsNaN(x) == x = NaN

(***************************************************************************)
(* Parameter spaces.  A grid maps each parameter (position) to its list of *)
(* values; the lists of the notebooks hold distinct values, here 1..k.     *)
(* A distribution is a list (sampled by index) or loguniform(lo, hi),      *)
(* whose continuous range is discretised to the integer levels lo..hi.     *)
(***************************************************************************)
ValueList(k) == [i \in 1..k |-> i]

Shapes == UNION {[1..p -> 1..MaxValues] : p \in 1..MaxParams}

Grids == {[i \in DOMAIN s |-> ValueList(s[i])] : s \in {t \in Shapes : Prod(t) <= MaxCand}}

GridSize(g) == Prod([i \in DOMAIN g |-> Len(g[i])])

loguniform(lo, hi) == [rvs |-> TRUE, lo |-> lo, hi |-> hi]

svm_distributions == <<loguniform(1, 3), loguniform(1, 2)>>

forest_distributions == <<[rvs |-> FALSE, values |-> <<5, 6>>],
                          loguniform(1, 2),
                          [rvs |-> FALSE, values |-> <<100, 200, 300>>]>>

Distributions == {svm_distributions, forest_distributions}

Domain(d) == IF d.rvs THEN d.lo..d.hi ELSE Range(d.values)

(***************************************************************************)
(* ParameterGrid: the cross product of the value lists, the last parameter *)
(* varying fastest (itertools.product over the sorted keys).               *)
(***************************************************************************)
RECURSIVE ParameterGridMut(_)
ParameterGridMut(g) ==
    IF g = <<>> THEN <<<<>>>>
    ELSE LET rest == ParameterGridMut(Tail(g))
             vals == Head(g)
             nv   == IF Len(g) = 1 /\ Len(vals) > 1 THEN Len(vals) - 1 ELSE Len(vals)
         IN  [k \in 1..(nv * Len(rest)) |->
                 <<vals[((k - 1) \div Len(rest)) + 1]>> \o rest[((k - 1) % Len(rest)) + 1]]

RECURSIVE ParameterGrid(_)
ParameterGrid(g) ==
    IF g = <<>> THEN <<<<>>>>
    ELSE LET rest == ParameterGrid(Tail(g))
             vals == Head(g)
         IN  [k \in 1..(Len(vals) * Len(rest)) |->
                 <<vals[((k - 1) \div Len(rest)) + 1]>> \o rest[((k - 1) % Len(rest)) + 1]]

(***************************************************************************)
(* The generator: a deterministic function of its state.  Each draw reads  *)
(* the state and advances it.                                              *)
(***************************************************************************)
RngStates == 0..(RngMod - 1)

NextRng(s) == (2 * s + 1) % RngMod

\* v.rvs(random_state=rng) for a distribution, v[rng.randint(len(v))] for a list
DrawMut(d, rng) ==
    IF d.rvs THEN d.lo + (rng % (d.hi - d.lo + 2))
    ELSE d.values[(rng % Len(d.values)) + 1]

Draw(d, rng) ==
    IF d.rvs THEN d.lo + (rng % (d.hi - d.lo + 1))
    ELSE d.values[(rng % Len(d.values)) + 1]

\* the state of the generator after k draws
RECURSIVE RngAfter(_, _)
RngAfter(rng, k) == IF k = 0 THEN rng ELSE RngAfter(NextRng(rng), k - 1)

\* one configuration: every parameter drawn in turn from the same generator
SampleParams(dists, rng) ==
    [params |-> [j \in 1..Len(dists) |-> Draw(dists[j], RngAfter(rng, j - 1))],
     rng    |-> RngAfter(rng, Len(dists))]

\* ParameterSampler: n configurations drawn one after the other (with
\* replacement: every search of the notebooks has a continuous distribution)
ParameterSampler(dists, n, rng) ==
    [i \in 1..n |-> SampleParams(dists, RngAfter(rng, (i - 1) * Len(dists))).params]

(***************************************************************************)
(* Ranking (BaseSearchCV._format_results): nan means are replaced by       *)
(* nanmin - 1, rank = rankdata(-means, method="min"), best = argmin(rank). *)
(***************************************************************************)
ArrayMeansMut(o, n) ==
    LET ok     == {i \in 1..n : ~IsNaN(o[i])}
        nanmax == Max({o[i][1] : i \in ok})
    IN  [i \in 1..n |-> IF IsNaN(o[i]) THEN nanmax + 1 ELSE o[i][1]]

ArrayMeans(o, n) ==
    LET ok     == {i \in 1..n : ~IsNaN(o[i])}
        nanmin == Min({o[i][1] : i \in ok})
    IN  [i \in 1..n |-> IF IsNaN(o[i]) THEN nanmin - 1 ELSE o[i][1]]

RankTestScore(o, n) ==
    LET a == ArrayMeans(o, n)
    IN  [i \in 1..n |-> 1 + Cardinality({j \in 1..n : a[j] > a[i]})]

ArgMinMut(r) ==
    LET m == Min(Range(r))
    IN  CHOOSE i \in DOMAIN r : r[i] = m /\ \A j \in DOMAIN r : j > i => r[j] # m

\* np.argmin: the first index holding the minimum
ArgMin(r) ==
    LET m == Min(Range(r))
    IN  CHOOSE i \in DOMAIN r : r[i] = m /\ \A j \in DOMAIN r : j < i => r[j] # m

\* joblib.Parallel returns the results in the order the tasks were submitted,
\* whatever the order they finished in: task i fills slot i
ResultSlotMut(i, done) == Cardinality(done) + 1

ResultSlot(i, done) == i

CollectMut(o, slot, result) == (slot :> result)

\* the single collector (the thread that called Parallel) stores the result a
\* worker returned; the workers share no list
Collect(o, slot, result) == (slot :> result) @@ o

AllBackMut(n, done) == done = 1..(n + 1)

\* Parallel returns once every task it dispatched has returned
AllBack(n, done) == done = 1..n

(***************************************************************************)
(* SpecSearch.                                                             *)
(***************************************************************************)
NCand == IF strategy = "grid" THEN GridSize(param_space) ELSE n_iter

InitUnfitted ==
    /\ pc = "new"
    /\ candidate_params = <<>>
    /\ out = <<>>
    /\ finished = {}
    /\ n_evaluated = 0
    /\ out_of_order = FALSE
    /\ cv_results_ = <<>>
    /\ best_index_ = 0
    /\ best_params_ = <<>>
    /\ best_score_ = NaN
    /\ best_estimator_ = <<>>

IdleStage ==
    /\ built13 = <<>>
    /\ movie_built = <<>>

IdleKmeans ==
    /\ kmeans_append = <<>>
    /\ kmeans_X = <<>>
    /\ kmeans_out = [status |-> "none", value |-> <<>>]

IdleShift ==
    /\ shift_image = <<>>
    /\ shift_direction = <<>>
    /\ shift_result = <<>>

IdlePipe ==
    /\ pc13 = 0
    /\ files13 = <<>>
    /\ norm_fit = {}
    /\ model_fit = {}
    /\ evals13 = {}
    /\ movie_valid_seen = {}
    /\ movie_test_seen = {}

IdleEnsemble ==
    /\ search07 = <<>>
    /\ defined07 = FALSE
    /\ model_scores = <<>>

IdleCache ==
    /\ models_dir = <<>>
    /\ data_version = 0
    /\ grid_version = 0
    /\ grid_search = <<>>
    /\ y_test_predicted = <<>>
    /\ y_test_predicted_aug = <<>>
    /\ last_cell = <<>>
    /\ computed = <<>>

IdleCV ==
    /\ y_cv = <<>>
    /\ cand_ok = <<>>
    /\ names_ok = TRUE
    /\ fit_params_ok = TRUE
    /\ cv_pc = "idle"
    /\ test_folds = <<>>
    /\ task = 0
    /\ task_out = <<>>
    /\ scored = <<>>
    /\ n_trained = 0
    /\ cv_warned = FALSE
    /\ results_cv = <<>>

IdleVote ==
    /\ y_val_preds = <<>>
    /\ votes = <<>>
    /\ hard_y_val_pred = <<>>
    /\ vote_pc = "idle"

NoCallback == [class |-> "None"]

IdleLR ==
    /\ lr_notebook = "none"
    /\ lr_args = <<>>
    /\ optimizer_lr = 0
    /\ stop_training = FALSE
    /\ callback = NoCallback
    /\ lr_pc = "idle"
    /\ lr_batch = 0
    /\ lr_steps = 0
    /\ lr_fits = 0

IdleAug ==
    /\ X_train03 = <<>>
    /\ y_train03 = <<>>
    /\ X_test03 = <<>>
    /\ X_train_augmented = <<>>
    /\ y_train_augmented = <<>>
    /\ aug_pc = "idle"
    /\ aug_k = 0
    /\ plotted = {}

IdleSearch ==
    /\ strategy = "none"
    /\ param_space = <<>>
    /\ n_iter = 0
    /\ random_state = 0
    /\ cv_score = <<>>
    /\ InitUnfitted

IdleSeed ==
    /\ seed2 = <<0, 0>>
    /\ rng2 = <<0, 0>>
    /\ drawn2 = <<<<>>, <<>>>>
    /\ best2 = <<<<>>, <<>>>>
    /\ score_peak = 0

InitSearch ==
    /\ IdleSeed
    /\ IdlePipe
    /\ IdleEnsemble
    /\ IdleCache
    /\ IdleCV
    /\ IdleAug
    /\ IdleLR
    /\ IdleVote
    /\ IdleStage
    /\ IdleKmeans
    /\ IdleShift
    /\ \/ /\ strategy = "grid"
          /\ param_space \in Grids
          /\ n_iter = 0
          /\ random_state = 0
       \/ /\ strategy = "random"
          /\ param_space \in Distributions
          /\ n_iter \in 1..MaxIter
          /\ random_state \in RngStates
    /\ cv_score \in [1..NCand -> Outcomes]
    /\ InitUnfitted

\* GridSearchCV._run_search: evaluate_candidates(ParameterGrid(param_grid))
RunGridSearch ==
    /\ pc = "new"
    /\ strategy = "grid"
    /\ candidate_params' = ParameterGrid(param_space)
    /\ pc' = "running"
    /\ UNCHANGED <<strategy, param_space, n_iter, random_state, cv_score, out,
                   finished, n_evaluated, out_of_order, cv_results_, best_index_,
                   best_params_, best_score_, best_estimator_, notSearch>>

\* RandomizedSearchCV._run_search: evaluate_candidates(ParameterSampler(...))
RunRandomizedSearch ==
    /\ pc = "new"
    /\ strategy = "random"
    /\ candidate_params' = ParameterSampler(param_space, n_iter, random_state)
    /\ pc' = "running"
    /\ UNCHANGED <<strategy, param_space, n_iter, random_state, cv_score, out,
                   finished, n_evaluated, out_of_order, cv_results_, best_index_,
                   best_params_, best_score_, best_estimator_, notSearch>>

\* a worker finishes the cross-validation of candidate i
EvaluateCandidate(i) ==
    /\ pc = "running"
    /\ i \in 1..Len(candidate_params)
    /\ i \notin finished
    /\ out' = Collect(out, ResultSlot(i, finished), cv_score[i])
    /\ finished' = finished \cup {i}
    /\ n_evaluated' = n_evaluated + 1
    /\ out_of_order' = (out_of_order \/ \E j \in finished : j > i)
    /\ UNCHANGED <<strategy, param_space, n_iter, random_state, cv_score, pc,
                   candidate_params, cv_results_, best_index_, best_params_,
                   best_score_, best_estimator_, notSearch>>

\* every task is back and every fit failed: fit raises
AllFitsFailed ==
    /\ pc = "running"
    /\ AllBack(Len(candidate_params), finished)
    /\ \A i \in DOMAIN out : IsNaN(out[i])
    /\ pc' = "error"
    /\ UNCHANGED <<strategy, param_space, n_iter, random_state, cv_score,
                   candidate_params, out, finished, n_evaluated, out_of_order,
                   cv_results_, best_index_, best_params_, best_score_,
                   best_estimator_, notSearch>>

\* every task is back: rank the results, select the best, refit it
FormatResults ==
    /\ pc = "running"
    /\ AllBack(Len(candidate_params), finished)
    /\ \E i \in DOMAIN out : ~IsNaN(out[i])
    /\ LET n    == Len(candidate_params)
           rank == RankTestScore(out, n)
           best == ArgMin(rank)
       IN  /\ cv_results_' = [i \in 1..n |-> [params |-> candidate_params[i],
                                               mean_test_score |-> out[i],
                                               rank_test_score |-> rank[i]]]
           /\ best_index_' = best
           /\ best_params_' = candidate_params[best]
           /\ best_score_' = out[best]
           /\ best_estimator_' = [params |-> candidate_params[best], fitted_on |-> "X"]
    /\ pc' = "done"
    /\ UNCHANGED <<strategy, param_space, n_iter, random_state, cv_score,
                   candidate_params, out, finished, n_evaluated, out_of_order,
                   notSearch>>

NextSearch ==
    \/ RunGridSearch
    \/ RunRandomizedSearch
    \/ \E i \in 1..MaxCand : EvaluateCandidate(i)
    \/ AllFitsFailed
    \/ FormatResults

SpecSearch == InitSearch /\ [][NextSearch]_vars

\* random_forest_classifier.fit: the randomized search over
\* forest_distributions, run to its end
InitForest ==
    /\ InitSearch
    /\ strategy = "random"
    /\ param_space = forest_distributions

NextForest ==
    \/ RunRandomizedSearch
    \/ \E i \in 1..MaxIter : EvaluateCandidate(i)
    \/ AllFitsFailed
    \/ FormatResults

\* fit runs on: a worker with a task finishes it, and fit goes on once the
\* tasks are back
SpecForest == InitForest /\ [][NextForest]_vars /\ WF_vars(NextForest)


(***************************************************************************)
(* SpecSeed: the randomized search over svm_distributions run twice, the   *)
(* two runs stepped side by side.  No notebook passes random_state, so     *)
(* each run's generator starts from a state the code does not fix; a run   *)
(* draws its n_iter configurations one after the other from its own        *)
(* generator, then ranks them and selects the best.  The estimator (an SVC *)
(* pipeline) scores a configuration deterministically.                     *)
(***************************************************************************)
Runs == {1, 2}

\* the generator run r draws from: its own
SamplerRngMut(r) == (rng2[r] + Len(drawn2[3 - r])) % RngMod

SamplerRng(r) == rng2[r]

\* the deterministic scoring stub
StubScore(c) == IF c[1] = score_peak THEN <<MaxScore>> ELSE <<0>>

InitSeed ==
    /\ strategy = "random"
    /\ param_space = svm_distributions
    /\ n_iter \in 1..MaxIter
    /\ random_state = 0
    /\ cv_score = <<>>
    /\ InitUnfitted
    /\ IdlePipe
    /\ IdleEnsemble
    /\ IdleCache
    /\ IdleCV
    /\ IdleAug
    /\ IdleLR
    /\ IdleVote
    /\ IdleStage
    /\ IdleKmeans
    /\ IdleShift
    /\ seed2 \in [Runs -> RngStates]
    /\ rng2 = seed2
    /\ drawn2 = [r \in Runs |-> <<>>]
    /\ best2 = [r \in Runs |-> <<>>]
    /\ score_peak \in Domain(svm_distributions[1])

\* one iteration of ParameterSampler in run r
SeedDraw(r) ==
    /\ Len(drawn2[r]) < n_iter
    /\ LET one == SampleParams(param_space, SamplerRng(r))
       IN  /\ drawn2' = [drawn2 EXCEPT ![r] = Append(@, one.params)]
           /\ rng2' = [rng2 EXCEPT ![r] = one.rng]
    /\ UNCHANGED <<notSeed, seed2, best2, score_peak>>

\* run r has scored its candidates: rank them and select the best
SeedSelect(r) ==
    /\ Len(drawn2[r]) = n_iter
    /\ best2[r] = <<>>
    /\ LET o == [i \in 1..n_iter |-> StubScore(drawn2[r][i])]
       IN  best2' = [best2 EXCEPT ![r] = drawn2[r][ArgMin(RankTestScore(o, n_iter))]]
    /\ UNCHANGED <<notSeed, seed2, rng2, drawn2, score_peak>>

NextSeed ==
    \/ \E r \in Runs : SeedDraw(r)
    \/ \E r \in Runs : SeedSelect(r)

SpecSeed == InitSeed /\ [][NextSeed]_vars

C7_SeedsMatter ==
    /\ seed2[1] # seed2[2]
    /\ Len(drawn2[1]) = MaxIter
    /\ Len(drawn2[2]) = MaxIter
    /\ drawn2[1] # drawn2[2]

(***************************************************************************)
(* SpecPipe: the data pipelines of the tf.data notebook.                   *)
(*                                                                         *)
(* Fashion-MNIST: train_set is X_train under shuffle(buffer_size=60_000),  *)
(* which shuffles anew each time the dataset is iterated; valid_set =      *)
(* train_set.take(valid_size) and train_set = train_set.skip(valid_size)   *)
(* are two datasets over that shuffle.  The writing loop iterates each     *)
(* dataset once, into num_shards TFRecord files, unless its directory is   *)
(* not empty.  norm_layer is adapted on X_train; the model is fitted on a  *)
(* sample of the train files and validated on the valid files.             *)
(*                                                                         *)
(* Movie reviews: test_dataset ends in shuffle(25_000); valid_dataset =    *)
(* test_dataset.take(15_000), test_dataset = test_dataset.skip(15_000).    *)
(***************************************************************************)
TrainIds == 1..NTrain

TestIds == (NTrain + 1)..(NTrain + NTest)

MovieIds == 1..NMovie

DatasetNames == <<"train_set", "valid_set", "test_set">>

\* the orders one iteration of a fully shuffled dataset can yield
Perms(S) == {f \in [1..Cardinality(S) -> S] : \A i, j \in DOMAIN f : f[i] = f[j] => i = j}

\* the orders shuffle(buffer_size=60_000) can yield X_train in
TrainOrders == Perms(TrainIds)

\* the orders shuffle(25_000) can yield the movie test files in
MovieOrders == Perms(MovieIds)

take(seq, n) == SubSeq(seq, 1, IF n < Len(seq) THEN n ELSE Len(seq))

skip(seq, n) == SubSeq(seq, n + 1, Len(seq))

\* what one iteration of the named dataset yields, the shuffle yielding perm
Iterate(name, perm) ==
    CASE name = "train_set" -> skip(perm, ValidSize)
      [] name = "valid_set" -> take(perm, ValidSize)
      [] name = "test_set"  -> [i \in 1..NTest |-> NTrain + i]

\* writers[i % num_shards].write(...) for i, item in dataset.enumerate()
Shards(items) ==
    [k \in 1..NumShards |->
        [j \in 1..((Len(items) + NumShards - k) \div NumShards) |->
            items[(j - 1) * NumShards + k]]]

FileIds(name) ==
    IF files13[name] = <<>> THEN {}
    ELSE UNION {Range(files13[name][k]) : k \in DOMAIN files13[name]}

InitPipe ==
    /\ IdleSearch
    /\ IdleSeed
    /\ IdleEnsemble
    /\ IdleCache
    /\ IdleCV
    /\ IdleAug
    /\ IdleLR
    /\ IdleVote
    /\ IdleStage
    /\ IdleKmeans
    /\ IdleShift
    /\ pc13 = 1
    /\ files13 = [n \in Range(DatasetNames) |-> <<>>]
    /\ norm_fit = {}
    /\ model_fit = {}
    /\ evals13 = {}
    /\ movie_valid_seen = {}
    /\ movie_test_seen = {}

\* one pass of the loop over datasets.items()
WriteDataset ==
    /\ pc13 \in 1..Len(DatasetNames)
    /\ LET name == DatasetNames[pc13]
       IN  IF files13[name] = <<>>
           THEN \E perm \in TrainOrders :
                   files13' = [files13 EXCEPT ![name] = Shards(Iterate(name, perm))]
           ELSE UNCHANGED files13
    /\ pc13' = pc13 + 1
    /\ UNCHANGED <<norm_fit, model_fit, evals13, movie_valid_seen, movie_test_seen,
                   notPipe>>

\* the writing cell is executed again
RerunWriteCell ==
    /\ pc13 = Len(DatasetNames) + 1
    /\ pc13' = 1
    /\ UNCHANGED <<files13, norm_fit, model_fit, evals13, movie_valid_seen,
                   movie_test_seen, notPipe>>

\* norm_layer.adapt(X_train)
AdaptNorm ==
    /\ pc13 = Len(DatasetNames) + 1
    /\ norm_fit' = TrainIds
    /\ UNCHANGED <<pc13, files13, model_fit, evals13, movie_valid_seen,
                   movie_test_seen, notPipe>>

\* one epoch of model.fit(train_dataset, validation_data=valid_dataset):
\* train on a sample of the shuffled train files, then evaluate on the valid
\* files, both read through preprocess (norm_layer)
FitEpoch ==
    /\ pc13 = Len(DatasetNames) + 1
    /\ norm_fit # {}
    /\ \E S \in SUBSET FileIds("train_set") :
          /\ Cardinality(S) = Min({SampleSize, Cardinality(FileIds("train_set"))})
          /\ model_fit' = model_fit \cup S
          /\ evals13' = evals13 \cup
                {[estimator |-> "norm_layer", fitted_on |-> norm_fit,
                  on |-> FileIds("valid_set"), diagnostic |-> FALSE],
                 [estimator |-> "model", fitted_on |-> model_fit \cup S,
                  on |-> FileIds("valid_set"), diagnostic |-> FALSE]}
    /\ UNCHANGED <<pc13, files13, norm_fit, movie_valid_seen, movie_test_seen, notPipe>>

\* one iteration over the movie valid_dataset = test_dataset.take(15_000)
MovieIterValid ==
    /\ \E perm \in MovieOrders :
          movie_valid_seen' = movie_valid_seen \cup Range(take(perm, MovieValidSize))
    /\ UNCHANGED <<pc13, files13, norm_fit, model_fit, evals13, movie_test_seen, notPipe>>

\* one iteration over the movie test_dataset = test_dataset.skip(15_000)
MovieIterTest ==
    /\ \E perm \in MovieOrders :
          movie_test_seen' = movie_test_seen \cup Range(skip(perm, MovieValidSize))
    /\ UNCHANGED <<pc13, files13, norm_fit, model_fit, evals13, movie_valid_seen, notPipe>>

NextPipe ==
    \/ WriteDataset
    \/ RerunWriteCell
    \/ AdaptNorm
    \/ FitEpoch
    \/ MovieIterValid
    \/ MovieIterTest

SpecPipe == InitPipe /\ [][NextPipe]_vars

\* C3: the partitions a notebook's split creates are pairwise disjoint: the
\* train, valid and test TFRecord files share no instance, and over any number
\* of iterations the movie valid_dataset and test_dataset yield no common
\* instance.
C3_PartitionsDisjoint ==
    /\ FileIds("train_set") \cap FileIds("valid_set") = {}
    /\ FileIds("train_set") \cap FileIds("test_set") = {}
    /\ FileIds("valid_set") \cap FileIds("test_set") = {}
    /\ movie_valid_seen \cap movie_test_seen = {}

\* C4: every evaluation of a fitted estimator (the model, or its fitted
\* preprocessing norm_layer) is on instances none of which it was fitted on,
\* unless it is an explicit training-set diagnostic.
C4_EvaluatedOnUnseenData ==
    \A e \in evals13 : e.diagnostic \/ e.fitted_on \cap e.on = {}

(***************************************************************************)
(* SpecEnsemble: the ensemble notebook.  Four searches are each fitted on  *)
(* X_train[:3_000]; eval_grid_search predicts X_val with the search's      *)
(* best_estimator_, first refitting it on X_train when called with         *)
(* refit=True, and appends to the three lists of model_scores.             *)
(***************************************************************************)
Searches07 == {"knn_classifier", "svm_classifier", "random_forest_classifier",
               "extra_tree_classifier"}

\* best_estimator_.__class__.__name__
ClassName(m) ==
    CASE m = "knn_classifier" -> "KNeighborsClassifier"
      [] m = "svm_classifier" -> "Pipeline"
      [] m = "random_forest_classifier" -> "RandomForestClassifier"
      [] m = "extra_tree_classifier" -> "ExtraTreesClassifier"

\* the refit argument each cell passes to eval_grid_search
RefitArg(m) == m \in {"random_forest_classifier", "extra_tree_classifier"}

\* the configuration the search of m selects
BestParams(m) == <<m, "best_params_">>

Unfitted07 == [fitted |-> FALSE]

\* refit=True of the search: best_estimator_ is the template with best_params_,
\* fitted on the whole of the data passed to fit
FittedSearch(m, data) ==
    [fitted |-> TRUE, best_params_ |-> BestParams(m),
     best_estimator_ |-> [params |-> BestParams(m), fitted_on |-> data]]

RefittedMut(search) == search

\* grid_search_model.best_estimator_.fit(X_train, y_train)
Refitted(search) == [search EXCEPT !.best_estimator_.fitted_on = "X_train"]

\* grid_search_model.predict(X_val)
predict(search, X) == [by |-> search.best_estimator_, on |-> X]

accuracy_score(y_true, y_pred) == <<"accuracy_score", y_true, y_pred>>

NoScores == [model |-> <<>>, val_accuracy |-> <<>>, y_val_pred |-> <<>>]

\* the search object eval_grid_search leaves behind
AfterEval(m) == IF RefitArg(m) THEN Refitted(search07[m]) ELSE search07[m]

\* the three appends of eval_grid_search
Appended(scores, m) ==
    LET y_val_pred == predict(AfterEval(m), "X_val")
    IN  [model |-> Append(scores.model, ClassName(m)),
         val_accuracy |-> Append(scores.val_accuracy, accuracy_score("y_val", y_val_pred)),
         y_val_pred |-> Append(scores.y_val_pred, y_val_pred)]

InitEnsemble ==
    /\ IdleSearch
    /\ IdleSeed
    /\ IdlePipe
    /\ IdleCache
    /\ IdleCV
    /\ IdleAug
    /\ IdleLR
    /\ IdleVote
    /\ IdleStage
    /\ IdleKmeans
    /\ IdleShift
    /\ search07 = [m \in Searches07 |-> Unfitted07]
    /\ defined07 = FALSE
    /\ model_scores = NoScores

\* the cell that builds the search m and fits it on X_train[:3_000]
FitSearch07(m) ==
    /\ search07' = [search07 EXCEPT ![m] = FittedSearch(m, "X_train[:3_000]")]
    /\ UNCHANGED <<defined07, model_scores, notEnsemble>>

\* the cell that resets model_scores, defines eval_grid_search and evaluates
\* knn_classifier (an unfitted search raises at best_params_)
EvalKnnCell ==
    LET m == "knn_classifier"
    IN  /\ defined07' = TRUE
        /\ IF search07[m].fitted
           THEN /\ search07' = [search07 EXCEPT ![m] = AfterEval(m)]
                /\ model_scores' = Appended(NoScores, m)
           ELSE /\ model_scores' = NoScores
                /\ UNCHANGED search07
        /\ UNCHANGED notEnsemble

\* the cells eval_grid_search(svm_classifier), (random_forest_classifier,
\* refit=True), (extra_tree_classifier, refit=True)
EvalCell(m) ==
    /\ m # "knn_classifier"
    /\ defined07
    /\ search07[m].fitted
    /\ Len(model_scores.model) < MaxEvals
    /\ search07' = [search07 EXCEPT ![m] = AfterEval(m)]
    /\ model_scores' = Appended(model_scores, m)
    /\ UNCHANGED <<defined07, notEnsemble>>

NextEnsemble ==
    \/ \E m \in Searches07 : FitSearch07(m)
    \/ EvalKnnCell
    \/ \E m \in Searches07 : EvalCell(m)

SpecEnsemble == InitEnsemble /\ [][NextEnsemble]_vars

\* C2 as stated: every model whose predictions are recorded for evaluation was
\* trained on the entire training partition X_train.
C2_RetainedModelTrainedOnAllOfXTrain ==
    \A i \in DOMAIN model_scores.y_val_pred :
        model_scores.y_val_pred[i].by.fitted_on = "X_train"

\* C2 amended: the model retained by a search carries the search's best
\* configuration and is trained on the whole of the data passed to the search
\* (X_train[:3_000]); the model whose validation predictions are recorded is
\* that model, retrained on the entire X_train exactly for the searches
\* evaluated with refit=True.
C2_RetainedModelTrainedOnSearchData ==
    /\ \A m \in Searches07 :
          search07[m].fitted =>
             /\ search07[m].best_estimator_.params = search07[m].best_params_
             /\ search07[m].best_estimator_.fitted_on \in {"X_train[:3_000]", "X_train"}
    /\ \A i \in DOMAIN model_scores.y_val_pred :
          \E m \in Searches07 :
             /\ model_scores.model[i] = ClassName(m)
             /\ model_scores.y_val_pred[i].on = "X_val"
             /\ model_scores.y_val_pred[i].by.params = BestParams(m)
             /\ model_scores.y_val_pred[i].by.fitted_on =
                   IF RefitArg(m) THEN "X_train" ELSE "X_train[:3_000]"

C2_Witness ==
    /\ Len(model_scores.model) = 4
    /\ \E i, j \in DOMAIN model_scores.y_val_pred :
          /\ model_scores.y_val_pred[i].by.fitted_on = "X_train[:3_000]"
          /\ model_scores.y_val_pred[j].by.fitted_on = "X_train"

\* C28: the three lists of model_scores have equal length, index i of each
\* refers to the same model, and the collected predictions hold one column
\* per distinct classifier, also when a cell calling eval_grid_search is
\* executed more than once.
C28_OneColumnPerClassifier ==
    /\ Len(model_scores.model) = Len(model_scores.val_accuracy)
    /\ Len(model_scores.model) = Len(model_scores.y_val_pred)
    /\ \A i \in DOMAIN model_scores.model :
          /\ \E m \in Searches07 :
                /\ model_scores.model[i] = ClassName(m)
                /\ model_scores.y_val_pred[i].by.params = BestParams(m)
          /\ model_scores.val_accuracy[i] =
                accuracy_score("y_val", model_scores.y_val_pred[i])
    /\ \A i, j \in DOMAIN model_scores.y_val_pred :
          model_scores.y_val_pred[i].by.params = model_scores.y_val_pred[j].by.params
             => i = j

(***************************************************************************)
(* SpecCache: the cached cells of the MNIST notebook.  Each cell tests     *)
(* model_path.is_file(): if the file is there it loads it, otherwise it    *)
(* computes and dumps.  Between runs the kernel is restarted, the files    *)
(* under models/ stay, and the data or the declared grid may change.       *)
(***************************************************************************)
Versions == 1..MaxVersion

FileNames == {"03_mnist_grid_search", "03_mnist_grid_search2", "03_y_test_predicted",
              "03_y_test_predicted_augmented"}

NoFile == [kind |-> "no file"]

Undefined == [kind |-> "undefined"]

\* GridSearchCV(model, grid, scoring="accuracy", cv=3, verbose=3)
GridSearchCV(grid, g) ==
    [kind |-> "GridSearchCV", param_grid |-> grid, grid_version |-> g, fitted |-> FALSE]

\* the search after fit(X_train[:10_000], y_train[:10_000]) on the data of version d
FittedGridSearch(gs, d) ==
    [kind |-> "GridSearchCV", param_grid |-> gs.param_grid, grid_version |-> gs.grid_version,
     fitted |-> TRUE,
     best_estimator_ |-> [data_version |-> d, fitted_on |-> "X_train[:10_000]"]]

\* grid_search.best_estimator_.fit(X, y) on the data of version d
Refit03(gs, X, d) ==
    [gs EXCEPT !.best_estimator_ = [data_version |-> d, fitted_on |-> X]]

\* grid_search.predict(X_test)
Predictions(gs) ==
    [kind |-> "predictions", param_grid |-> gs.param_grid, grid_version |-> gs.grid_version,
     by |-> gs.best_estimator_]

CacheHitMut(name) ==
    /\ models_dir[name] # NoFile
    /\ models_dir[name].kind = "GridSearchCV" => models_dir[name].grid_version = grid_version

\* model_path.is_file()
CacheHit(name) == models_dir[name] # NoFile

IsFitted(gs) == gs.kind = "GridSearchCV" /\ gs.fitted

Report(cell, name, loaded, fit, raised) ==
    [cell |-> cell, file |-> name, file_existed |-> models_dir[name] # NoFile,
     loaded |-> loaded, fit |-> fit, raised |-> raised, warned |-> FALSE]

\* a search pickled by an earlier session of the notebook
EarlierGridSearch ==
    FittedGridSearch(GridSearchCV("param_grid", 1), 1)

InitCache ==
    /\ IdleSearch
    /\ IdleSeed
    /\ IdlePipe
    /\ IdleEnsemble
    /\ IdleCV
    /\ IdleAug
    /\ IdleLR
    /\ IdleVote
    /\ IdleStage
    /\ IdleKmeans
    /\ IdleShift
    /\ \E a \in {NoFile, EarlierGridSearch} :
          /\ models_dir = [n \in FileNames |->
                              IF n = "03_mnist_grid_search" THEN a ELSE NoFile]
          /\ computed = models_dir
    /\ data_version \in Versions
    /\ grid_version \in Versions
    /\ grid_search = Undefined
    /\ y_test_predicted = Undefined
    /\ y_test_predicted_aug = Undefined
    /\ last_cell = [cell |-> "none"]

\* the kernel is restarted; the data and the grids of the new run may differ
NewRun ==
    /\ data_version' \in Versions
    /\ grid_version' \in Versions
    /\ grid_search' = Undefined
    /\ y_test_predicted' = Undefined
    /\ y_test_predicted_aug' = Undefined
    /\ last_cell' = [cell |-> "none"]
    /\ UNCHANGED <<models_dir, computed, notCache>>

\* the cell that declares param_grid and grid_search
DefineGridSearch ==
    /\ grid_search' = GridSearchCV("param_grid", grid_version)
    /\ last_cell' = [cell |-> "param_grid"]
    /\ UNCHANGED <<models_dir, computed, data_version, grid_version, y_test_predicted,
                   y_test_predicted_aug, notCache>>

\* 03_mnist_grid_search: without the file, grid_search.fit(..., n_jobs=-1)
\* hands n_jobs to the pipeline's fit, every fit fails and fit raises
CellA ==
    LET name == "03_mnist_grid_search"
    IN  /\ IF CacheHit(name)
           THEN /\ grid_search' = models_dir[name]
                /\ last_cell' = Report("A", name, TRUE, FALSE, FALSE)
           ELSE /\ UNCHANGED grid_search
                /\ last_cell' = Report("A", name, FALSE, grid_search # Undefined, TRUE)
        /\ UNCHANGED <<models_dir, computed, data_version, grid_version,
                       y_test_predicted, y_test_predicted_aug, notCache>>

\* 03_mnist_grid_search2
CellB ==
    LET name == "03_mnist_grid_search2"
        fresh == GridSearchCV("param_grid2", grid_version)
        fitted == FittedGridSearch(fresh, data_version)
    IN  /\ IF CacheHit(name)
           THEN /\ grid_search' = models_dir[name]
                /\ last_cell' = Report("B", name, TRUE, FALSE, FALSE)
                /\ UNCHANGED <<models_dir, computed>>
           ELSE /\ grid_search' = fitted
                /\ models_dir' = [models_dir EXCEPT ![name] = fitted]
                /\ computed' = [computed EXCEPT ![name] = fitted]
                /\ last_cell' = Report("B", name, FALSE, TRUE, FALSE)
        /\ UNCHANGED <<data_version, grid_version, y_test_predicted,
                       y_test_predicted_aug, notCache>>

\* 03_y_test_predicted
CellC ==
    LET name == "03_y_test_predicted"
        refitted == Refit03(grid_search, "X_train", data_version)
    IN  /\ IF CacheHit(name)
           THEN /\ y_test_predicted' = models_dir[name]
                /\ last_cell' = Report("C", name, TRUE, FALSE, FALSE)
                /\ UNCHANGED <<grid_search, models_dir, computed>>
           ELSE IF IsFitted(grid_search)
           THEN /\ grid_search' = refitted
                /\ y_test_predicted' = Predictions(refitted)
                /\ models_dir' = [models_dir EXCEPT ![name] = Predictions(refitted)]
                /\ computed' = [computed EXCEPT ![name] = Predictions(refitted)]
                /\ last_cell' = Report("C", name, FALSE, TRUE, FALSE)
           ELSE /\ last_cell' = Report("C", name, FALSE, FALSE, TRUE)
                /\ UNCHANGED <<grid_search, y_test_predicted, models_dir, computed>>
        /\ UNCHANGED <<data_version, grid_version, y_test_predicted_aug, notCache>>

\* 03_y_test_predicted_augmented: the else branch dumps y_test_predicted, which
\* raises when that name is not defined
CellD ==
    LET name == "03_y_test_predicted_augmented"
        refitted == Refit03(grid_search, "X_train_augmented", data_version)
    IN  /\ IF CacheHit(name)
           THEN /\ y_test_predicted_aug' = models_dir[name]
                /\ last_cell' = Report("D", name, TRUE, FALSE, FALSE)
                /\ UNCHANGED <<grid_search, models_dir, computed>>
           ELSE IF IsFitted(grid_search)
           THEN /\ grid_search' = refitted
                /\ y_test_predicted_aug' = Predictions(refitted)
                /\ IF y_test_predicted # Undefined
                   THEN /\ models_dir' = [models_dir EXCEPT ![name] = y_test_predicted]
                        /\ computed' = [computed EXCEPT ![name] = Predictions(refitted)]
                        /\ last_cell' = Report("D", name, FALSE, TRUE, FALSE)
                   ELSE /\ last_cell' = Report("D", name, FALSE, TRUE, TRUE)
                        /\ UNCHANGED <<models_dir, computed>>
           ELSE /\ last_cell' = Report("D", name, FALSE, FALSE, TRUE)
                /\ UNCHANGED <<grid_search, y_test_predicted_aug, models_dir, computed>>
        /\ UNCHANGED <<data_version, grid_version, y_test_predicted, notCache>>

NextCache ==
    \/ NewRun
    \/ DefineGridSearch
    \/ CellA
    \/ CellB
    \/ CellC
    \/ CellD

SpecCache == InitCache /\ [][NextCache]_vars

\* the notebook variable a cached cell assigns
Assigned(cell) ==
    CASE cell = "A" -> grid_search
      [] cell = "B" -> grid_search
      [] cell = "C" -> y_test_predicted
      [] cell = "D" -> y_test_predicted_aug

Cached(cell) == cell \in {"A", "B", "C", "D"}

\* C5: a cached cell that finds its file loads it, fits nothing, warns of
\* nothing and leaves the file as it was, whatever the data and the grid of the
\* current run.
C5_FileExistsMeansLoadNoFit ==
    (Cached(last_cell.cell) /\ last_cell.file_existed) =>
        /\ last_cell.loaded
        /\ ~last_cell.fit
        /\ ~last_cell.warned
        /\ Assigned(last_cell.cell) = models_dir[last_cell.file]

\* a search fitted for another grid and other data was loaded
C5_Witness ==
    /\ last_cell.cell = "B"
    /\ last_cell.loaded
    /\ grid_search.grid_version # grid_version
    /\ grid_search.best_estimator_.data_version # data_version

\* C6: the artifact under every file name is the one the saving run computed
\* for it, and so is what a cell loads from it.
C6_LoadedIsWhatWasComputed ==
    /\ \A n \in FileNames : models_dir[n] # NoFile => models_dir[n] = computed[n]
    /\ (Cached(last_cell.cell) /\ last_cell.loaded) =>
          Assigned(last_cell.cell) = computed[last_cell.file]

(***************************************************************************)
(* SpecCV: the fit of one search at the level of its fits, as in           *)
(* GridSearchCV(model, param_grid, scoring="accuracy", cv=3): for a        *)
(* classifier cv=3 is StratifiedKFold(3) without shuffling; the splits are *)
(* all computed before the first fit (itertools.product consumes           *)
(* cv.split), then the (candidate, fold) tasks run one after the other.    *)
(* A task sets the candidate's parameters (an unknown name raises out of   *)
(* fit), fits on the training folds (an exception here is caught and the   *)
(* task's score is error_score = nan) and scores the held-out fold.  When  *)
(* every task failed fit raises; interrupting the kernel raises            *)
(* KeyboardInterrupt out of fit.                                           *)
(***************************************************************************)
Labels == UNION {[1..n -> 1..NClasses] : n \in 1..MaxInst}

\* the first index at which class c appears in y
FirstIndex(y, c) == Min({i \in DOMAIN y : y[i] = c})

\* y_encoded: the classes numbered from 0 in their order of appearance
Encoded(y) ==
    [i \in DOMAIN y |->
        Cardinality({c \in Range(y) : FirstIndex(y, c) < FirstIndex(y, y[i])})]

\* y_counts = np.bincount(y_encoded)
y_counts(y) ==
    LET e == Encoded(y)
    IN  [k \in Range(e) |-> Cardinality({i \in DOMAIN e : e[i] = k})]

\* the positions (0-based) class k occupies in y_order = np.sort(y_encoded)
ClassPositions(e, k) ==
    LET start == Cardinality({i \in DOMAIN e : e[i] < k})
        count == Cardinality({i \in DOMAIN e : e[i] = k})
    IN  start..(start + count - 1)

\* allocation[f, k] = np.bincount(y_order[f::n_splits])[k]
allocation(e, f, k) == Cardinality({p \in ClassPositions(e, k) : p % n_splits = f})

\* test_folds[y_encoded == k] = np.arange(n_splits).repeat(allocation[:, k]):
\* the j-th instance of class k gets the j-th element of that list
make_test_folds(y) ==
    LET e == Encoded(y)
    IN  [i \in DOMAIN y |->
            LET k == e[i]
                j == Cardinality({h \in DOMAIN e : h < i /\ e[h] = k})
            IN  Min({f \in 0..(n_splits - 1) :
                        Cardinality({p \in ClassPositions(e, k) : p % n_splits <= f}) > j})]

SplitRaisesMut(y) ==
    \/ n_splits > Len(y)
    \/ \E k \in DOMAIN y_counts(y) : n_splits > y_counts(y)[k]

\* split raises ValueError: more splits than samples, or than the members of
\* every class (np.all(n_splits > y_counts))
SplitRaises(y) ==
    \/ n_splits > Len(y)
    \/ \A k \in DOMAIN y_counts(y) : n_splits > y_counts(y)[k]

\* split warns: the least populated class has fewer than n_splits members
SplitWarns(y) == n_splits > Min(Range(y_counts(y)))

test_indexMut(folds, f) == {i \in DOMAIN folds : folds[i] <= f}

\* the held-out instances of fold f: test_folds == f
test_index(folds, f) == {i \in DOMAIN folds : folds[i] = f}

\* the instances the task of fold f trains on
train_index(folds, f) == DOMAIN folds \ test_index(folds, f)

NTasks == Len(cand_ok) * n_splits

\* product(candidate_params, cv.split(X, y)): candidate-major order
TaskCandidate(t) == ((t - 1) \div n_splits) + 1

TaskFold(t) == (t - 1) % n_splits

SetParamsRaisesMut(c) == FALSE

\* estimator.set_params(**parameters), outside the try of _fit_and_score
SetParamsRaises(c) == ~names_ok

\* estimator.fit(X_train, y_train, **fit_params), inside the try
FitRaises(c) == ~cand_ok[c] \/ ~fit_params_ok

\* mean_test_score of candidate c: nan as soon as one of its folds is nan
MeanTestScore(c) ==
    IF \A t \in 1..NTasks : TaskCandidate(t) = c => task_out[t] = "score"
    THEN "score" ELSE "nan"

InitCV ==
    /\ IdleSearch
    /\ IdleSeed
    /\ IdlePipe
    /\ IdleEnsemble
    /\ IdleCache
    /\ IdleAug
    /\ IdleLR
    /\ IdleVote
    /\ IdleStage
    /\ IdleKmeans
    /\ IdleShift
    /\ y_cv \in Labels
    /\ cand_ok \in UNION {[1..n -> BOOLEAN] : n \in 1..MaxCandCV}
    /\ names_ok \in BOOLEAN
    /\ fit_params_ok \in BOOLEAN
    /\ cv_pc = "new"
    /\ test_folds = <<>>
    /\ task = 1
    /\ task_out = <<>>
    /\ scored = [c \in DOMAIN cand_ok |-> [i \in DOMAIN y_cv |-> 0]]
    /\ n_trained = 0
    /\ cv_warned = FALSE
    /\ results_cv = <<>>

\* fit: the splits are computed
SplitCV ==
    /\ cv_pc = "new"
    /\ IF SplitRaises(y_cv)
       THEN /\ cv_pc' = "error"
            /\ UNCHANGED <<test_folds, cv_warned>>
       ELSE /\ cv_pc' = "running"
            /\ test_folds' = make_test_folds(y_cv)
            /\ cv_warned' = SplitWarns(y_cv)
    /\ UNCHANGED <<y_cv, cand_ok, names_ok, fit_params_ok, task, task_out, scored,
                   n_trained, results_cv, notCV>>

\* _fit_and_score for the next task
FitAndScore ==
    /\ cv_pc = "running"
    /\ task <= NTasks
    /\ LET c == TaskCandidate(task)
           f == TaskFold(task)
       IN  IF SetParamsRaises(c)
           THEN /\ cv_pc' = "error"
                /\ UNCHANGED <<task, task_out, scored, n_trained>>
           ELSE IF FitRaises(c)
           THEN /\ task_out' = Append(task_out, "nan")
                /\ task' = task + 1
                /\ UNCHANGED <<cv_pc, scored, n_trained>>
           ELSE /\ task_out' = Append(task_out, "score")
                /\ task' = task + 1
                /\ n_trained' = n_trained + 1
                /\ scored' = [scored EXCEPT ![c] =
                                 [i \in DOMAIN y_cv |->
                                     IF i \in test_index(test_folds, f)
                                     THEN scored[c][i] + 1 ELSE scored[c][i]]]
                /\ UNCHANGED cv_pc
    /\ UNCHANGED <<y_cv, cand_ok, names_ok, fit_params_ok, test_folds, cv_warned,
                   results_cv, notCV>>

\* every task is back: fit raises when all of them failed, otherwise it
\* leaves one result per candidate
FinishCV ==
    /\ cv_pc = "running"
    /\ task = NTasks + 1
    /\ IF \A t \in 1..NTasks : task_out[t] = "nan"
       THEN /\ cv_pc' = "error"
            /\ UNCHANGED results_cv
       ELSE /\ cv_pc' = "done"
            /\ results_cv' = [c \in DOMAIN cand_ok |-> MeanTestScore(c)]
    /\ UNCHANGED <<y_cv, cand_ok, names_ok, fit_params_ok, test_folds, task, task_out,
                   scored, n_trained, cv_warned, notCV>>

\* the kernel is interrupted while fit runs: KeyboardInterrupt leaves fit, the
\* scores collected so far are local to fit
InterruptCV ==
    /\ cv_pc = "running"
    /\ cv_pc' = "interrupted"
    /\ UNCHANGED <<y_cv, cand_ok, names_ok, fit_params_ok, test_folds, task, task_out,
                   scored, n_trained, cv_warned, results_cv, notCV>>

NextCV ==
    \/ SplitCV
    \/ FitAndScore
    \/ FinishCV
    \/ InterruptCV

SpecCV == InitCV /\ [][NextCV]_vars

\* the candidates all of whose folds have been fitted and scored
CrossValidated ==
    {c \in DOMAIN cand_ok :
        /\ task > c * n_splits
        /\ \A t \in 1..(task - 1) : TaskCandidate(t) = c => task_out[t] = "score"}

\* C11: the held-out folds of the n_splits splits partition the training
\* data: every instance is held out in exactly one fold, none is both trained
\* and tested on in one split, and a candidate whose n_splits evaluations are
\* done has scored every instance exactly once.
C11_FoldsPartitionTheData ==
    test_folds # <<>> =>
        /\ DOMAIN test_folds = DOMAIN y_cv
        /\ \A i \in DOMAIN y_cv :
              Cardinality({f \in 0..(n_splits - 1) : i \in test_index(test_folds, f)}) = 1
        /\ \A f \in 0..(n_splits - 1) :
              /\ test_index(test_folds, f) # {}
              /\ test_index(test_folds, f) \cap train_index(test_folds, f) = {}
              /\ test_index(test_folds, f) \cup train_index(test_folds, f) = DOMAIN y_cv
        /\ \A c \in CrossValidated : \A i \in DOMAIN y_cv : scored[c][i] = 1

C11_Witness ==
    /\ cv_pc = "done"
    /\ Len(y_cv) = MaxInst
    /\ Cardinality(Range(y_cv)) = 2
    /\ Cardinality(Range(test_folds)) = n_splits
    /\ 2 \in CrossValidated
    /\ \A i \in DOMAIN y_cv : scored[2][i] = 1

\* the number of members of the least and of the most populated class of y
SmallestClass == Min({Cardinality({i \in DOMAIN y_cv : y_cv[i] = c}) : c \in Range(y_cv)})

LargestClass == Max({Cardinality({i \in DOMAIN y_cv : y_cv[i] = c}) : c \in Range(y_cv)})

\* C13 as stated: when the number of folds exceeds the number of instances of
\* the smallest class, the search fails and no candidate has been trained.
C13_FailsWhenSmallestClassTooSmall ==
    (cv_pc # "new" /\ n_splits > SmallestClass) =>
        /\ cv_pc = "error"
        /\ n_trained = 0

\* C13 as amended: the search fails before any fit exactly when the number of
\* folds exceeds the number of instances, or the number of instances of every
\* class; when it exceeds only that of the smallest class, the splitter warns
\* and the search goes on to fit its candidates.
C13_FailsWhenEveryClassTooSmall ==
    cv_pc # "new" =>
        IF n_splits > Len(y_cv) \/ n_splits > LargestClass
        THEN /\ cv_pc = "error"
             /\ n_trained = 0
             /\ task = 1
             /\ test_folds = <<>>
        ELSE /\ test_folds # <<>>
             /\ cv_warned = (n_splits > SmallestClass)
             /\ (cv_pc = "error" /\ names_ok) => task = NTasks + 1

C13_Witness ==
    /\ cv_pc = "error"
    /\ Len(y_cv) = MaxInst
    /\ Cardinality(Range(y_cv)) = 2
    /\ LargestClass < n_splits

\* C14 as stated: an invalid parameter name or value makes the search fail
\* before any training begins, and a fatal error never comes after some
\* candidate was trained.
C14_InvalidParameterFailsBeforeTraining ==
    /\ (cv_pc \in {"done", "error"}
        /\ (~names_ok \/ ~fit_params_ok \/ \E c \in DOMAIN cand_ok : ~cand_ok[c])) =>
            /\ cv_pc = "error"
            /\ n_trained = 0
            /\ task = 1
    /\ cv_pc = "error" => n_trained = 0

\* C14 as amended: a parameter name the estimator does not have makes fit
\* raise at the first task, before any fit.  An invalid parameter value or an
\* argument the estimator's fit does not accept fails only the fits concerned:
\* the candidate is recorded with nan and the search goes on; fit raises only
\* after every fit of every candidate was attempted and failed.  Fit ends
\* either with an error and no candidate trained, or with one result per
\* candidate.
C14_OnlyUnknownNamesFailBeforeTraining ==
    /\ ~names_ok =>
          /\ cv_pc # "done"
          /\ n_trained = 0
          /\ task <= 1
    /\ cv_pc = "error" => n_trained = 0
    /\ (cv_pc = "error" /\ names_ok /\ test_folds # <<>>) =>
          /\ task = NTasks + 1
          /\ \A c \in DOMAIN cand_ok : ~cand_ok[c] \/ ~fit_params_ok
    /\ cv_pc = "done" =>
          /\ names_ok
          /\ fit_params_ok
          /\ DOMAIN results_cv = DOMAIN cand_ok
          /\ \A c \in DOMAIN cand_ok : (results_cv[c] = "nan") <=> ~cand_ok[c]
          /\ n_trained = n_splits * Cardinality({c \in DOMAIN cand_ok : cand_ok[c]})

C14_Witness ==
    /\ cv_pc = "done"
    /\ cand_ok = <<TRUE, FALSE>>
    /\ results_cv = <<"score", "nan">>
    /\ n_trained = n_splits

\* C15: when the search is cancelled, the result of every candidate completed
\* before the cancellation is kept on the search object.
C15_CancelKeepsCompletedResults ==
    cv_pc = "interrupted" => Len(results_cv) = (task - 1) \div n_splits

(***************************************************************************)
(* SpecAug: shift and the augmentation cell of the MNIST notebook.  An     *)
(* image is the flat list of its ImgSide * ImgSide pixels, row after row.  *)
(* shift reshapes it (a view), builds the shifted image with np.zeros,     *)
(* np.hstack and np.vstack (new arrays) and returns it flat.  The cell     *)
(* starts X_train_augmented with the images of X_train, appends the shift  *)
(* of every image in each of four directions, turns the list into an array *)
(* and permutes it, the labels alike.                                      *)
(***************************************************************************)
Pixels == 1..(ImgSide * ImgSide)

\* the image whose only lit pixel is p
OneHot(p) == [q \in Pixels |-> IF q = p THEN 1 ELSE 0]

Images == {OneHot(p) : p \in Pixels}

Labels03 == {"0", "9"}

\* image_data.reshape(28, 28)[r, c], r and c counted from 1
At(image_data, r, c) == image_data[(r - 1) * ImgSide + c]

\* np.hstack((np.zeros(...), image[:, :-dx])) or ((image[:, -dx:], np.zeros(...)))
ShiftColumns(image_data, dx) ==
    [q \in Pixels |->
        LET r == ((q - 1) \div ImgSide) + 1
            c == ((q - 1) % ImgSide) + 1
        IN  IF c - dx \in 1..ImgSide THEN At(image_data, r, c - dx) ELSE 0]

ShiftRowsMut(image_data, dy) ==
    [q \in Pixels |->
        LET r == ((q - 1) \div ImgSide) + 1
            c == ((q - 1) % ImgSide) + 1
        IN  IF r - dy \in 1..ImgSide THEN At(image_data, r - dy, c) ELSE 0]

\* np.vstack((image[dy:, :], np.zeros(...))) or ((np.zeros(...), image[:dy, :]))
ShiftRows(image_data, dy) ==
    [q \in Pixels |->
        LET r == ((q - 1) \div ImgSide) + 1
            c == ((q - 1) % ImgSide) + 1
        IN  IF r + dy \in 1..ImgSide THEN At(image_data, r + dy, c) ELSE 0]

\* shift(image_data, direction): the array it returns
shift(image_data, direction) ==
    ShiftRows(ShiftColumns(image_data, direction[1]), direction[2])

shift_leavesMut(image_data, direction) == shift(image_data, direction)

\* shift(image_data, direction): the argument array after the call; nothing
\* is written through the reshaped view
shift_leaves(image_data, direction) == image_data

\* for direction in [(-1, 0), (1, 0), (0, 1), (0, -1)]
Directions == <<<<-1, 0>>, <<1, 0>>, <<0, 1>>, <<0, -1>>>>

\* the directions of the plotting cell
PlotDirections == {<<0, 0 - PlotShift>>, <<PlotShift, 0>>}

ShuffleIdxMut(n) == {[i \in 1..n |-> 1]}

\* np.random.permutation(n): the orders drawn here are the identity, the
\* reversal and the rotation by one
ShuffleIdx(n) ==
    {[i \in 1..n |-> i], [i \in 1..n |-> n + 1 - i], [i \in 1..n |-> (i % n) + 1]}

InitAug ==
    /\ IdleSearch
    /\ IdleSeed
    /\ IdlePipe
    /\ IdleEnsemble
    /\ IdleCache
    /\ IdleCV
    /\ IdleLR
    /\ IdleVote
    /\ IdleStage
    /\ IdleKmeans
    /\ IdleShift
    /\ X_train03 \in [1..NAug -> Images]
    /\ y_train03 \in [1..NAug -> Labels03]
    /\ X_test03 \in [1..1 -> {OneHot(1), OneHot(ImgSide * ImgSide)}]
    /\ X_train_augmented = <<>>
    /\ y_train_augmented = <<>>
    /\ aug_pc = "start"
    /\ aug_k = 0
    /\ plotted = {}

\* plot_digit(shift(X_test[0], direction=...))
PlotShifted ==
    /\ \E d \in PlotDirections :
          /\ plotted' = plotted \cup {shift(X_test03[1], d)}
          /\ X_test03' = [X_test03 EXCEPT ![1] = shift_leaves(X_test03[1], d)]
    /\ UNCHANGED <<X_train03, y_train03, X_train_augmented, y_train_augmented, aug_pc,
                   aug_k, notAug>>

\* X_train_augmented = [image for image in X_train], the labels alike
StartAugment ==
    /\ aug_pc = "start"
    /\ X_train_augmented' = X_train03
    /\ y_train_augmented' = y_train03
    /\ aug_k' = 0
    /\ aug_pc' = "loop"
    /\ UNCHANGED <<X_train03, y_train03, X_test03, plotted, notAug>>

\* one pass of the inner loop: the next image of X_train, in the direction
\* the outer loop is at
AugmentOne ==
    /\ aug_pc = "loop"
    /\ aug_k < Len(Directions) * Len(X_train03)
    /\ LET direction == Directions[(aug_k \div Len(X_train03)) + 1]
           i         == (aug_k % Len(X_train03)) + 1
       IN  /\ X_train_augmented' = Append(X_train_augmented, shift(X_train03[i], direction))
           /\ y_train_augmented' = Append(y_train_augmented, y_train03[i])
           /\ X_train03' = [X_train03 EXCEPT ![i] = shift_leaves(X_train03[i], direction)]
    /\ aug_k' = aug_k + 1
    /\ UNCHANGED <<y_train03, X_test03, aug_pc, plotted, notAug>>

\* np.array of both lists, then both indexed by shuffle_idx
FinishAugment ==
    /\ aug_pc = "loop"
    /\ aug_k = Len(Directions) * Len(X_train03)
    /\ \E shuffle_idx \in ShuffleIdx(Len(X_train_augmented)) :
          /\ X_train_augmented' =
                [j \in 1..Len(X_train_augmented) |-> X_train_augmented[shuffle_idx[j]]]
          /\ y_train_augmented' =
                [j \in 1..Len(y_train_augmented) |-> y_train_augmented[shuffle_idx[j]]]
    /\ aug_pc' = "done"
    /\ UNCHANGED <<X_train03, y_train03, X_test03, aug_k, plotted, notAug>>

NextAug ==
    \/ PlotShifted
    \/ StartAugment
    \/ AugmentOne
    \/ FinishAugment

SpecAug == InitAug /\ [][NextAug]_vars

AugmentedPairs ==
    [j \in DOMAIN X_train_augmented |-> <<X_train_augmented[j], y_train_augmented[j]>>]

\* the pairs the augmented set is to hold: every original, and its shift by
\* one pixel to the left, to the right, up and down, each with the label of
\* the original
ExpectedPairs ==
    [i \in 1..NAug |-> <<X_train03[i], y_train03[i]>>]
    \o [k \in 1..(4 * NAug) |->
          LET i == ((k - 1) % NAug) + 1
              d == <<<<-1, 0>>, <<1, 0>>, <<0, 1>>, <<0, -1>>>>[((k - 1) \div NAug) + 1]
          IN  <<shift(X_train03[i], d), y_train03[i]>>]

Occurrences(seq, x) == Cardinality({j \in DOMAIN seq : seq[j] = x})

\* C27: the augmented training set holds exactly 5 * N (image, label) pairs,
\* each original once and each of its four one-pixel shifts (left, right, up,
\* down), and after the shuffle every image is still paired with the label of
\* the original it comes from.
C27_AugmentedSetIsFiveTimesTheData ==
    aug_pc = "done" =>
        /\ Len(X_train_augmented) = 5 * NAug
        /\ Len(y_train_augmented) = 5 * NAug
        /\ LET augmented == AugmentedPairs
               expected  == ExpectedPairs
           IN  \A p \in Range(augmented) \cup Range(expected) :
                  Occurrences(augmented, p) = Occurrences(expected, p)

C27_Witness ==
    /\ aug_pc = "done"
    /\ y_train03[1] # y_train03[2]
    /\ X_train03[1] # X_train03[2]
    /\ X_train_augmented[1] # X_train03[1]
    /\ \E j \in DOMAIN X_train_augmented :
          /\ X_train_augmented[j] \notin Range(X_train03)
          /\ y_train_augmented[j] = y_train03[2]

(***************************************************************************)
(* SpecShift: shift applied to any image of pixels 0 and 1, in any         *)
(* direction of at most ImgSide columns and rows.                          *)
(***************************************************************************)
BinaryImages == [Pixels -> {0, 1}]

ShiftDirections == {<<dx, dy>> : dx \in (0 - ImgSide)..ImgSide, dy \in (0 - ImgSide)..ImgSide}

InitShift ==
    /\ IdleSearch
    /\ IdleSeed
    /\ IdlePipe
    /\ IdleEnsemble
    /\ IdleCache
    /\ IdleCV
    /\ IdleAug
    /\ IdleLR
    /\ IdleVote
    /\ IdleStage
    /\ IdleKmeans
    /\ shift_image \in BinaryImages
    /\ shift_direction = <<>>
    /\ shift_result = <<>>

\* shift(image_data, direction)
CallShift(direction) ==
    /\ shift_direction = <<>>
    /\ shift_direction' = direction
    /\ shift_result' = shift(shift_image, direction)
    /\ shift_image' = shift_leaves(shift_image, direction)
    /\ UNCHANGED notShift

NextShift == \E direction \in ShiftDirections : CallShift(direction)

SpecShift == InitShift /\ [][NextShift]_vars

\* result is image moved by right columns towards higher column index and by
\* down rows towards higher row index, the vacated pixels being 0
Translated(image, result, right, down) ==
    /\ DOMAIN result = Pixels
    /\ \A r, c \in 1..ImgSide :
          At(result, r, c) =
             IF r - down \in 1..ImgSide /\ c - right \in 1..ImgSide
             THEN At(image, r - down, c - right)
             ELSE 0

\* C26 as stated: for every image and every direction (dx, dy) of at most
\* ImgSide columns and rows shift returns the image translated by dx columns
\* and dy rows, positive meaning towards higher index on both axes, vacated
\* pixels 0 and the others copied; direction (0, 0) returns the input.
C26_ShiftTowardsHigherIndexOnBothAxes ==
    shift_direction # <<>> =>
        Translated(shift_image, shift_result, shift_direction[1], shift_direction[2])

\* C26, amended: shift returns the image translated by dx columns towards
\* higher column index and by dy rows towards lower row index (positive dx
\* is right, positive dy is up), vacated pixels 0 and the others copied;
\* direction (0, 0) returns the input.
C26_ShiftRightAndUp ==
    shift_direction # <<>> =>
        /\ Translated(shift_image, shift_result, shift_direction[1], 0 - shift_direction[2])
        /\ shift_direction = <<0, 0>> => shift_result = shift_image

C26_Witness ==
    /\ shift_direction = <<1, 1>>
    /\ shift_image = [q \in Pixels |-> IF q = ImgSide + 1 THEN 1 ELSE 0]
    /\ shift_result = [q \in Pixels |-> IF q = 2 THEN 1 ELSE 0]

(***************************************************************************)
(* SpecLR: the ExponentialLearningRate callback and the cells that use it. *)
(* Learning rates are exact fractions [num, den] in lowest terms; the      *)
(* rounding of floating point is not modelled.                             *)
(***************************************************************************)
RECURSIVE GCD(_, _)
GCD(a, b) == IF b = 0 THEN a ELSE GCD(b, a % b)

Rat(n, d) == [num |-> n \div GCD(n, d), den |-> d \div GCD(n, d)]

RatMul(a, b) == Rat(a.num * b.num, a.den * b.den)

RatDiv(a, b) == Rat(a.num * b.den, a.den * b.num)

RatGt(a, b) == a.num * b.den > b.num * a.den

RECURSIVE RatPow(_, _)
RatPow(a, k) == IF k = 0 THEN Rat(1, 1) ELSE RatMul(a, RatPow(a, k - 1))

\* x ** (1 / n), for an x that is the n-th power of a fraction
RatRoot(x, n) ==
    CHOOSE r \in {Rat(p, q) : p \in 1..x.num, q \in 1..x.den} : RatPow(r, n) = x

\* ExponentialLearningRate.__init__
ExponentialLearningRateMut(starting_lr, end_lr, n_iter_) ==
    [class          |-> "ExponentialLearningRate",
     factor         |-> RatDiv(end_lr, starting_lr),
     starting_lr    |-> starting_lr,
     end_lr         |-> end_lr,
     learning_rates |-> <<>>,
     losses         |-> <<>>]

ExponentialLearningRate(starting_lr, end_lr, n_iter_) ==
    [class          |-> "ExponentialLearningRate",
     factor         |-> RatRoot(RatDiv(end_lr, starting_lr), n_iter_),
     starting_lr    |-> starting_lr,
     end_lr         |-> end_lr,
     learning_rates |-> <<>>,
     losses         |-> <<>>]

on_train_beginMut(cb, lr) == lr

\* on_train_begin: the optimizer's learning rate once it has run, lr being
\* the rate before
on_train_begin(cb, lr) == cb.starting_lr

ExceedsMut(lr, end_lr) == {FALSE}

\* lr > self.end_lr, the outcomes it can have: the rates are products of
\* rounded floating-point numbers, so a rate whose exact value is end_lr may
\* compare either way
Exceeds(lr, end_lr) == IF lr = end_lr THEN BOOLEAN ELSE {RatGt(lr, end_lr)}

\* the learning rate Adam() and "nadam" are compiled with
DefaultLr == Rat(3, 1)

\* model.optimizer.learning_rate = 3e-4 (1.5e-3 / 2 in part_000)
RetrainLr == Rat(3, 2)

\* the ramps the cells are tried with: end_lr is starting_lr times the n_iter-th
\* power of a factor 2..MaxFactor or of one over it
Factors == {Rat(p, 1) : p \in 2..MaxFactor} \cup {Rat(1, q) : q \in 2..MaxFactor}

RampArgs ==
    {[starting_lr |-> Rat(s, 1), end_lr |-> RatMul(Rat(s, 1), RatPow(f, n)), n_iter |-> n] :
        s \in 1..MaxStartLr, f \in Factors, n \in 1..MaxNIter}

InitLR ==
    /\ IdleSearch
    /\ IdleSeed
    /\ IdlePipe
    /\ IdleEnsemble
    /\ IdleCache
    /\ IdleCV
    /\ IdleAug
    /\ IdleVote
    /\ IdleStage
    /\ IdleKmeans
    /\ IdleShift
    /\ lr_notebook \in {"10", "part_000"}
    /\ lr_args \in RampArgs
    /\ optimizer_lr = DefaultLr
    /\ stop_training = FALSE
    /\ callback = NoCallback
    /\ lr_pc = "idle"
    /\ lr_batch = 0
    /\ lr_steps = 0
    /\ lr_fits = 0

\* the ramp cell up to the first batch: the callback is constructed (in
\* part_000 after model = make_text_model()), fit clears stop_training and
\* calls on_train_begin
RampCell ==
    /\ lr_pc # "training"
    /\ lr_fits < MaxFits
    /\ LET cb == ExponentialLearningRate(lr_args.starting_lr, lr_args.end_lr, lr_args.n_iter)
           lr == IF lr_notebook = "part_000" THEN DefaultLr ELSE optimizer_lr
       IN  /\ callback' = cb
           /\ optimizer_lr' = on_train_begin(cb, lr)
    /\ stop_training' = FALSE
    /\ lr_batch' = 0
    /\ lr_steps' \in 1..MaxBatches
    /\ lr_fits' = lr_fits + 1
    /\ lr_pc' = "training"
    /\ UNCHANGED <<lr_notebook, lr_args, notLR>>

\* model.fit called again with the callback object of the last fit: fit
\* clears stop_training and calls on_train_begin; nothing resets the lists
FitAgain ==
    /\ lr_pc = "idle"
    /\ callback # NoCallback
    /\ lr_fits < MaxFits
    /\ optimizer_lr' = on_train_begin(callback, optimizer_lr)
    /\ stop_training' = FALSE
    /\ lr_batch' = 0
    /\ lr_steps' \in 1..MaxBatches
    /\ lr_fits' = lr_fits + 1
    /\ lr_pc' = "training"
    /\ UNCHANGED <<lr_notebook, lr_args, callback, notLR>>

\* on_train_batch_end, called by fit after a batch, logs["loss"] being the
\* loss of that batch; fit goes on to another batch only while stop_training
\* is unset.  In part_000 the message printed
\* when the end is reached takes np.argmin(self.losses), a ValueError when
\* no loss is recorded yet.
TrainBatchEnd ==
    /\ lr_pc = "training"
    /\ ~stop_training
    /\ lr_batch < lr_steps
    /\ LET lr   == RatMul(optimizer_lr, callback.factor)
           loss == [fit |-> lr_fits, batch |-> lr_batch + 1]
       IN  \E over \in Exceeds(lr, callback.end_lr) :
              IF /\ over
                 /\ lr_notebook = "part_000"
                 /\ callback.losses = <<>>
              THEN /\ lr_pc' = "raised"
                   /\ UNCHANGED <<optimizer_lr, stop_training, callback, lr_batch>>
              ELSE /\ stop_training' = (stop_training \/ over)
                   /\ optimizer_lr' = lr
                   /\ callback' = [callback EXCEPT
                                      !.learning_rates = Append(@, lr),
                                      !.losses = Append(@, loss)]
                   /\ lr_batch' = lr_batch + 1
                   /\ lr_pc' = lr_pc
    /\ UNCHANGED <<lr_notebook, lr_args, lr_steps, lr_fits, notLR>>

\* fit returns: the batches are used up or stop_training is set
EndFit ==
    /\ lr_pc = "training"
    /\ stop_training \/ lr_batch = lr_steps
    /\ lr_pc' = "idle"
    /\ UNCHANGED <<lr_notebook, lr_args, optimizer_lr, stop_training, callback, lr_batch,
                   lr_steps, lr_fits, notLR>>

\* the cell after the ramp: a new model, its learning rate set by hand
RetrainCell ==
    /\ lr_pc # "training"
    /\ callback # NoCallback
    /\ optimizer_lr # RetrainLr
    /\ optimizer_lr' = RetrainLr
    /\ stop_training' = FALSE
    /\ UNCHANGED <<lr_notebook, lr_args, callback, lr_pc, lr_batch, lr_steps, lr_fits, notLR>>

NextLR ==
    \/ RampCell
    \/ FitAgain
    \/ TrainBatchEnd
    \/ EndFit
    \/ RetrainCell

SpecLR == InitLR /\ [][NextLR]_vars

\* fit keeps running batches and the notebook keeps being executed
SpecLRFair == SpecLR /\ WF_vars(NextLR)

\* the k-th value of the ramp the cell asks for
Ramp(k) ==
    RatMul(lr_args.starting_lr,
           RatPow(RatRoot(RatDiv(lr_args.end_lr, lr_args.starting_lr), lr_args.n_iter), k))

\* C19: within a training run the learning rate the callback has set after
\* the k-th batch is starting_lr * factor^k with factor =
\* (end_lr / starting_lr)^(1 / n_iter), whatever earlier runs or other
\* writers left in the optimizer; so is the k-th rate it recorded in the run.
C19_RampIsFunctionOfBatchCount ==
    lr_pc = "training" =>
        /\ optimizer_lr = Ramp(lr_batch)
        /\ Len(callback.learning_rates) >= lr_batch
        /\ \A k \in 1..lr_batch :
              callback.learning_rates[Len(callback.learning_rates) - lr_batch + k] = Ramp(k)

C19_Witness ==
    /\ lr_pc = "training"
    /\ lr_fits = 2
    /\ lr_batch = 2
    /\ optimizer_lr # lr_args.starting_lr
    /\ optimizer_lr = Ramp(2)

\* a ramp fit is running and the ramp goes up
InRamp == lr_pc = "training" /\ RatGt(lr_args.end_lr, lr_args.starting_lr)

\* C22 as stated: with starting_lr < end_lr the learning rate assigned to the
\* optimizer never exceeds end_lr, and every value recorded in learning_rates
\* is <= end_lr.
C22_NeverExceedsEndLr ==
    InRamp =>
        /\ ~RatGt(optimizer_lr, callback.end_lr)
        /\ \A k \in DOMAIN callback.learning_rates :
              ~RatGt(callback.learning_rates[k], callback.end_lr)

\* C22, amended: with starting_lr < end_lr the learning rate assigned to the
\* optimizer and every value recorded in learning_rates is at most
\* end_lr * factor; a rate above end_lr is assigned only by the batch that
\* sets stop_training.
C22_NeverExceedsEndLrTimesFactor ==
    InRamp =>
        /\ ~RatGt(optimizer_lr, RatMul(callback.end_lr, callback.factor))
        /\ RatGt(optimizer_lr, callback.end_lr) => stop_training
        /\ \A k \in DOMAIN callback.learning_rates :
              ~RatGt(callback.learning_rates[k], RatMul(callback.end_lr, callback.factor))

C22_Witness ==
    /\ InRamp
    /\ stop_training
    /\ RatGt(optimizer_lr, callback.end_lr)
    /\ optimizer_lr = RatMul(callback.end_lr, callback.factor)
    /\ callback.learning_rates[Len(callback.learning_rates)] = optimizer_lr

\* C23 as stated: with starting_lr < end_lr and enough batches the callback
\* eventually sets stop_training, for the first time at the end of batch
\* n_iter, never before and never later.
C23_StopsAtBatchNIter ==
    /\ [](InRamp /\ stop_training => lr_batch = lr_args.n_iter)
    /\ (InRamp /\ lr_steps >= lr_args.n_iter) ~> stop_training

\* C23, amended: with starting_lr < end_lr and more than n_iter batches the
\* callback eventually sets stop_training, or in part_000 raises at its first
\* batch; it sets it for the first time at the end of the first batch whose
\* rate exceeds end_lr, which is batch n_iter + 1, or batch n_iter when the
\* rounded rate of that batch already compares above end_lr; never before
\* batch n_iter and never after batch n_iter + 1.
C23_StopsAtBatchNIterOrNext ==
    /\ [](InRamp =>
            /\ stop_training => lr_batch \in {lr_args.n_iter, lr_args.n_iter + 1}
            /\ lr_batch > lr_args.n_iter => stop_training)
    /\ (InRamp /\ lr_steps > lr_args.n_iter) ~> (stop_training \/ lr_pc = "raised")

C23_Witness ==
    /\ InRamp
    /\ lr_args.n_iter = 2
    /\ stop_training
    /\ lr_batch = lr_args.n_iter + 1

\* C24: len(learning_rates) = len(losses) = the number of on_train_batch_end
\* calls of the current training run, the i-th loss being that of the batch
\* that recorded the i-th rate; a second fit with the same callback object
\* starts from empty lists.
C24_ListsCountBatchesOfTheRun ==
    lr_pc = "training" =>
        /\ Len(callback.learning_rates) = lr_batch
        /\ Len(callback.losses) = lr_batch
        /\ \A i \in 1..lr_batch : callback.losses[i] = [fit |-> lr_fits, batch |-> i]

\* C25: in part_000 on_train_batch_end never raises, whatever starting_lr,
\* end_lr and n_iter, also when the stop condition holds at the first batch.
C25_BatchEndNeverRaises ==
    lr_notebook = "part_000" => lr_pc # "raised"

(***************************************************************************)
(* SpecVote: the hard-voting cell.  model_scores["y_val_pred"] holds one   *)
(* array of predicted labels per evaluation, the labels being the digit    *)
(* strings of MNIST; the cell stacks them, one row per validation          *)
(* instance, and takes scipy's mode of every row.                          *)
(***************************************************************************)
Digits == <<"0", "1", "2", "3", "4", "5", "6", "7", "8", "9">>

\* the classes the classifiers are taken to predict
VoteLabels == {"0", "1", "2"}

\* label.astype("int")
AsInt(label) == (CHOOSE i \in DOMAIN Digits : Digits[i] = label) - 1

\* number.astype("str")
AsStr(number) == Digits[number + 1]

\* np.vstack(arrays).T: row i holds the i-th entry of every array
vstack_T(arrays) ==
    [i \in 1..NVal |-> [j \in 1..Len(arrays) |-> arrays[j][i]]]

\* np.unique(row): the distinct values, ascending
RECURSIVE unique(_)
unique(S) ==
    IF S = {} THEN <<>> ELSE <<Min(S)>> \o unique(S \ {Min(S)})

argmaxMut(counts) ==
    CHOOSE k \in DOMAIN counts :
        /\ \A j \in DOMAIN counts : counts[j] <= counts[k]
        /\ \A j \in DOMAIN counts : j > k => counts[j] < counts[k]

\* counts.argmax(): the first index of the largest count
argmax(counts) ==
    CHOOSE k \in DOMAIN counts :
        /\ \A j \in DOMAIN counts : counts[j] <= counts[k]
        /\ \A j \in DOMAIN counts : j < k => counts[j] < counts[k]

\* scipy.stats.mode of one row of integers
mode(row) ==
    LET vals   == unique(Range(row))
        counts == [k \in DOMAIN vals |->
                      Cardinality({j \in DOMAIN row : row[j] = vals[k]})]
    IN  vals[argmax(counts)]

\* the lists of one to MaxVoters predicted arrays
PredictionLists ==
    UNION {[1..n -> [1..NVal -> VoteLabels]] : n \in 1..MaxVoters}

InitVote ==
    /\ IdleSearch
    /\ IdleSeed
    /\ IdlePipe
    /\ IdleEnsemble
    /\ IdleCache
    /\ IdleCV
    /\ IdleAug
    /\ IdleLR
    /\ IdleStage
    /\ IdleKmeans
    /\ IdleShift
    /\ y_val_preds \in PredictionLists
    /\ votes = <<>>
    /\ hard_y_val_pred = <<>>
    /\ vote_pc = "ready"

\* the voting cell
VoteCell ==
    /\ vote_pc = "ready"
    /\ votes' = vstack_T(y_val_preds)
    /\ hard_y_val_pred' =
          [i \in 1..NVal |->
              AsStr(mode([j \in DOMAIN votes'[i] |-> AsInt(votes'[i][j])]))]
    /\ vote_pc' = "voted"
    /\ UNCHANGED <<y_val_preds, notVote>>

NextVote == VoteCell

SpecVote == InitVote /\ [][NextVote]_vars

\* the number of collected predictions of label c for validation instance i
VotesFor(i, c) ==
    Cardinality({j \in DOMAIN y_val_preds : y_val_preds[j][i] = c})

\* C20: hard voting returns the majority vote: for every validation instance
\* the voted class is predicted by at least as many of the collected
\* classifiers as any other class, and among the classes predicted as often
\* it is the one with the smallest label.
C20_HardVoteIsMajority ==
    vote_pc = "voted" =>
        \A i \in 1..NVal :
            /\ hard_y_val_pred[i] \in VoteLabels
            /\ \A c \in VoteLabels :
                  /\ VotesFor(i, hard_y_val_pred[i]) >= VotesFor(i, c)
                  /\ VotesFor(i, hard_y_val_pred[i]) = VotesFor(i, c)
                        => AsInt(hard_y_val_pred[i]) <= AsInt(c)

C20_Witness ==
    /\ vote_pc = "voted"
    /\ Len(y_val_preds) = 3
    /\ VotesFor(1, "1") = 1 /\ VotesFor(1, "2") = 1 /\ VotesFor(1, "0") = 1
    /\ hard_y_val_pred[1] = "0"
    /\ VotesFor(2, "2") = 2 /\ VotesFor(2, "0") = 1
    /\ hard_y_val_pred[2] = "2"

(***************************************************************************)
(* SpecStages: the pipelines get_dataset and get_movie_dataset build.  A   *)
(* pipeline is the list of its stages, source first; every method of       *)
(* tf.data.Dataset returns a new dataset that reads from the one it is     *)
(* called on.                                                              *)
(***************************************************************************)
Stage(op, arg) == [op |-> op, arg |-> arg]

NoPipeline == <<>>

\* the sample arguments get_dataset is tried with: <<>> for None, <<n>> for n
Samples == {<<>>} \cup {<<n>> : n \in 0..MaxSample}

\* if sample: None and 0 are false
Truthy(sample) == sample # <<>> /\ sample[1] # 0

get_datasetMut(dataset_name, shuffle_, sample) ==
    LET dataset  == <<Stage("TFRecordDataset", dataset_name), Stage("map", "parse"),
                      Stage("map", "preprocess")>>
        shuffled == IF shuffle_ THEN Append(dataset, Stage("shuffle", NTrain - ValidSize))
                    ELSE dataset
        sampled  == IF Truthy(sample) THEN Append(shuffled, Stage("take", sample[1]))
                    ELSE shuffled
    IN  sampled \o <<Stage("batch", 32), Stage("cache", "memory"),
                     Stage("prefetch", "AUTOTUNE")>>

\* get_dataset(dataset_name, shuffle, sample)
get_dataset(dataset_name, shuffle_, sample) ==
    LET dataset  == <<Stage("TFRecordDataset", dataset_name), Stage("map", "parse"),
                      Stage("map", "preprocess"), Stage("cache", "memory")>>
        shuffled == IF shuffle_ THEN Append(dataset, Stage("shuffle", NTrain - ValidSize))
                    ELSE dataset
        sampled  == IF Truthy(sample) THEN Append(shuffled, Stage("take", sample[1]))
                    ELSE shuffled
    IN  sampled \o <<Stage("batch", 32), Stage("prefetch", "AUTOTUNE")>>

\* get_movie_dataset(train)
get_movie_dataset(train) ==
    <<Stage("list_files", IF train THEN "train" ELSE "test"), Stage("map", "parse"),
      Stage("map", "text_vec_layer"), Stage("cache", "memory"), Stage("shuffle", NMovie)>>

InitStages ==
    /\ IdleSearch
    /\ IdleSeed
    /\ IdlePipe
    /\ IdleEnsemble
    /\ IdleCache
    /\ IdleCV
    /\ IdleAug
    /\ IdleLR
    /\ IdleVote
    /\ IdleKmeans
    /\ IdleShift
    /\ built13 = [d \in Range(DatasetNames) |-> NoPipeline]
    /\ movie_built = [d \in {"train", "valid", "test"} |-> NoPipeline]

\* one call of get_dataset, as in train_dataset = get_dataset("train_set", ...)
CallGetDataset(dataset_name, shuffle_, sample) ==
    /\ built13[dataset_name] # get_dataset(dataset_name, shuffle_, sample)
    /\ built13' = [built13 EXCEPT ![dataset_name] = get_dataset(dataset_name, shuffle_, sample)]
    /\ UNCHANGED <<movie_built, notStage>>

\* the cell that binds the three movie datasets
MovieDatasetsCell ==
    /\ movie_built["train"] = NoPipeline
    /\ LET test_dataset == get_movie_dataset(FALSE)
       IN  movie_built' =
              [train |-> get_movie_dataset(TRUE) \o
                            <<Stage("batch", 32), Stage("prefetch", "AUTOTUNE")>>,
               valid |-> test_dataset \o
                            <<Stage("take", MovieValidSize), Stage("batch", 32),
                              Stage("prefetch", "AUTOTUNE")>>,
               test  |-> test_dataset \o
                            <<Stage("skip", MovieValidSize), Stage("batch", 32),
                              Stage("prefetch", "AUTOTUNE")>>]
    /\ UNCHANGED <<built13, notStage>>

NextStages ==
    \/ \E d \in Range(DatasetNames), sh \in BOOLEAN, sample \in Samples : CallGetDataset(d, sh, sample)
    \/ MovieDatasetsCell

SpecStages == InitStages /\ [][NextStages]_vars

Pipelines == Range(built13) \cup Range(movie_built)

\* C21: in every pipeline built by get_dataset and get_movie_dataset there
\* is one cache stage, it comes after the loading and map stages and before
\* every shuffle, take, batch and prefetch stage.
C21_CacheAfterLoadingBeforeShuffle ==
    \A p \in Pipelines \ {NoPipeline} :
        \E k \in DOMAIN p :
            /\ p[k].op = "cache"
            /\ \A j \in DOMAIN p :
                  /\ p[j].op = "cache" => j = k
                  /\ p[j].op \in {"TFRecordDataset", "list_files", "map"} => j < k
                  /\ p[j].op \in {"shuffle", "take", "batch", "prefetch"} => j > k

C21_Witness ==
    /\ \E j \in DOMAIN built13["train_set"] : built13["train_set"][j].op = "shuffle"
    /\ \E j \in DOMAIN built13["train_set"] : built13["train_set"][j].op = "take"
    /\ built13["valid_set"] # NoPipeline
    /\ \A j \in DOMAIN built13["valid_set"] : built13["valid_set"][j].op # "shuffle"
    /\ movie_built["valid"] # NoPipeline

(***************************************************************************)
(* SpecWriter: the writing cell alone, with the runs that are interrupted  *)
(* (KeyboardInterrupt, kernel restart) inside the loop over the items.     *)
(* TFRecordWriter creates its file when it is constructed, so a directory  *)
(* whose pass was interrupted is not empty, whatever was flushed.          *)
(***************************************************************************)
\* a pass of the loop over datasets.items() interrupted after n items of the
\* dataset were written; the cell ends there
InterruptedWrite ==
    /\ pc13 \in 1..Len(DatasetNames)
    /\ LET name == DatasetNames[pc13]
       IN  /\ files13[name] = <<>>
           /\ \E perm \in TrainOrders :
                 \E n \in 0..(Len(Iterate(name, perm)) - 1) :
                    files13' = [files13 EXCEPT
                                   ![name] = Shards(take(Iterate(name, perm), n))]
    /\ pc13' = 0
    /\ UNCHANGED <<norm_fit, model_fit, evals13, movie_valid_seen, movie_test_seen,
                   notPipe>>

\* the writing cell is executed again after an interrupted run
RerunAfterInterrupt ==
    /\ pc13 = 0
    /\ pc13' = 1
    /\ UNCHANGED <<files13, norm_fit, model_fit, evals13, movie_valid_seen,
                   movie_test_seen, notPipe>>

NextWriter ==
    \/ WriteDataset
    \/ InterruptedWrite
    \/ RerunWriteCell
    \/ RerunAfterInterrupt

SpecWriter == InitPipe /\ [][NextWriter]_vars

\* the number of items one iteration of the named dataset yields
DatasetSize(name) ==
    CASE name = "train_set" -> NTrain - ValidSize
      [] name = "valid_set" -> ValidSize
      [] name = "test_set"  -> NTest

\* the named dataset's files are num_shards shards whose sizes differ by at
\* most one and that hold, each item in one place, as many items as the dataset
HoldsCompleteDataset(name) ==
    /\ Len(files13[name]) = NumShards
    /\ \A k, l \in 1..NumShards :
          Len(files13[name][k]) <= Len(files13[name][l]) + 1
    /\ Cardinality(FileIds(name)) = DatasetSize(name)
    /\ \A k, l \in 1..NumShards :
          \A i \in DOMAIN files13[name][k], j \in DOMAIN files13[name][l] :
             files13[name][k][i] = files13[name][l][j] => k = l /\ i = j

\* C29: after any run of the writing cell that reached its end, also one that
\* follows an interrupted run, the files of every dataset hold the complete
\* dataset, spread over the shards in turn (item i to shard i mod num_shards,
\* sizes differing by at most one, every item in exactly one shard).
C29_FilesHoldCompleteDataset ==
    pc13 = Len(DatasetNames) + 1 =>
        \A name \in Range(DatasetNames) : HoldsCompleteDataset(name)

(***************************************************************************)
(* SpecKmeans: the KMeansAppend transformer.  An array is the list of its  *)
(* rows, all of one width.  KMeans.fit leaves n_clusters cluster centres   *)
(* (here any rows of the data) or raises when there are fewer              *)
(* samples than clusters; KMeans.transform gives, per row, the distance to *)
(* each centre and raises when the width is not the fitted one.  Every     *)
(* number of an array is non-negative and kept as its square, so that a    *)
(* Euclidean distance is an integer too.                                   *)
(***************************************************************************)
FeatureValues == {0, 1}

NoCall == [status |-> "none", value |-> <<>>]

Raised(error) == [status |-> error, value |-> <<>>]

Returns(value) == [status |-> "returned", value |-> value]

Rows(width) == [1..width -> FeatureValues]

\* the arrays of 1..MaxRows rows and 1..MaxCols columns
Arrays ==
    UNION {[1..n -> Rows(width)] : n \in 1..MaxRows, width \in 1..MaxCols}

\* X.shape[1]
Width(X) == Len(X[1])

RECURSIVE SumTo(_, _)
SumTo(f, n) == IF n = 0 THEN 0 ELSE f[n] + SumTo(f, n - 1)

\* the Euclidean distance of two points of features 0 and 1, as its square
Distance(row, centre) ==
    SumTo([j \in DOMAIN row |-> IF row[j] = centre[j] THEN 0 ELSE 1], Len(row))

\* KMeansAppend(n_clusters)
KMeansAppend(n_clusters) ==
    [n_clusters |-> n_clusters, state |-> "new", n_features_in_ |-> 0, kmeans_ |-> <<>>]

\* self.kmeans_.transform(X)
kmeans_transform(centres, X) ==
    [i \in DOMAIN X |-> [c \in DOMAIN centres |-> Distance(X[i], centres[c])]]

transformMut(self, X) ==
    [i \in DOMAIN X |-> kmeans_transform(self.kmeans_, X)[i] \o X[i]]

\* KMeansAppend.transform, for a fitted self and an X of the fitted width
transform(self, X) ==
    [i \in DOMAIN X |-> X[i] \o kmeans_transform(self.kmeans_, X)[i]]

InitKmeans ==
    /\ IdleSearch
    /\ IdleSeed
    /\ IdlePipe
    /\ IdleEnsemble
    /\ IdleCache
    /\ IdleCV
    /\ IdleAug
    /\ IdleLR
    /\ IdleVote
    /\ IdleStage
    /\ IdleShift
    /\ kmeans_append \in {KMeansAppend(n) : n \in 1..MaxClusters}
    /\ kmeans_X = <<>>
    /\ kmeans_out = NoCall

\* KMeansAppend.fit(X) on a new object: n_features_in_ is set, then
\* KMeans(n_clusters).fit(X) leaves its centres, or raises when X has fewer
\* rows than clusters and kmeans_ stays an unfitted KMeans.  A behaviour is
\* one fit followed by one transform, or one transform alone.
FitKmeans(X) ==
    /\ kmeans_append.state = "new"
    /\ kmeans_out = NoCall
    /\ IF Len(X) < kmeans_append.n_clusters
       THEN kmeans_append' = [kmeans_append EXCEPT !.state = "fit raised",
                                                   !.n_features_in_ = Width(X)]
       ELSE \E centres \in [1..kmeans_append.n_clusters -> Range(X)] :
               kmeans_append' = [kmeans_append EXCEPT !.state = "fitted",
                                                      !.n_features_in_ = Width(X),
                                                      !.kmeans_ = centres]
    /\ UNCHANGED <<kmeans_X, kmeans_out, notKmeans>>

\* one call of transform(X): check_is_fitted(self) raises on a new object,
\* KMeans.transform on an unfitted kmeans_ and on an X of another width
TransformKmeans(X) ==
    /\ kmeans_out = NoCall
    /\ kmeans_X' = X
    /\ kmeans_out' =
          IF kmeans_append.state # "fitted" THEN Raised("NotFittedError")
          ELSE IF Width(X) # Len(kmeans_append.kmeans_[1]) THEN Raised("ValueError")
          ELSE Returns(transform(kmeans_append, X))
    /\ UNCHANGED <<kmeans_append, notKmeans>>

NextKmeans ==
    \/ \E X \in Arrays : FitKmeans(X)
    \/ \E X \in Arrays : TransformKmeans(X)

SpecKmeans == InitKmeans /\ [][NextKmeans]_vars

Returned == kmeans_out.status = "returned"

\* the array returned is the argument with the distances to the centres of
\* the object appended to every row
DistancesAppended ==
    Returned =>
        /\ kmeans_append.state = "fitted"
        /\ Len(kmeans_out.value) = Len(kmeans_X)
        /\ \A i \in DOMAIN kmeans_out.value :
              LET row == kmeans_out.value[i]
              IN  /\ Len(row) = kmeans_append.n_features_in_ + kmeans_append.n_clusters
                  /\ SubSeq(row, 1, kmeans_append.n_features_in_) = kmeans_X[i]
                  /\ \A c \in 1..kmeans_append.n_clusters :
                        row[kmeans_append.n_features_in_ + c]
                           = Distance(kmeans_X[i], kmeans_append.kmeans_[c])

\* C30: for a fitted KMeansAppend, what transform returns has one row per
\* input row, made of the input row followed by the n_clusters distances:
\* its width is n_features_in_ + n_clusters and its first n_features_in_
\* columns are the input.
C30_FeaturesAppended == DistancesAppended

C30_Witness ==
    /\ Returned
    /\ kmeans_append.n_clusters = 2
    /\ kmeans_append.n_features_in_ = 2
    /\ Len(kmeans_X) = 2
    /\ kmeans_X[1] # kmeans_X[2]
    /\ kmeans_out.value[1][3] # kmeans_out.value[1][4]

(***************************************************************************)
(* Claims about one search.                                                *)
(***************************************************************************)
\* the cross product of the declared value lists, as a set
CrossProduct(g) ==
    {c \in [DOMAIN g -> UNION {Range(g[k]) : k \in DOMAIN g}] :
        \A k \in DOMAIN g : c[k] \in Range(g[k])}

Evaluated == pc \in {"done", "error"}

\* every candidate was evaluated exactly once
EachEvaluatedOnce ==
    /\ finished = 1..Len(candidate_params)
    /\ n_evaluated = Len(candidate_params)

\* the candidates that did not fail
Succeeded == {i \in 1..Len(candidate_params) : ~IsNaN(cv_score[i])}

\* C1: a grid search has exactly one candidate per element of the cross
\* product of the declared value lists (their number is the product of the
\* list lengths), evaluates each of them once, and reports as best score the
\* maximum mean cross-validation score over the evaluated candidates.
C1_GridExhaustiveAndBestIsMax ==
    (strategy = "grid" /\ pc # "new") =>
        /\ Len(candidate_params) = Prod([k \in DOMAIN param_space |-> Len(param_space[k])])
        /\ Len(candidate_params) = Cardinality(CrossProduct(param_space))
        /\ Range(candidate_params) = CrossProduct(param_space)
        /\ Evaluated => EachEvaluatedOnce
        /\ pc = "done" =>
              /\ Len(cv_results_) = Cardinality(CrossProduct(param_space))
              /\ \A i \in 1..Len(cv_results_) : cv_results_[i].mean_test_score = cv_score[i]
              /\ best_score_ = <<Max({cv_score[i][1] : i \in Succeeded})>>

C1_Witness ==
    /\ strategy = "grid"
    /\ pc = "done"
    /\ Len(param_space) = 2
    /\ Len(candidate_params) = 4
    /\ best_index_ = 3
    /\ \E i \in 1..4 : cv_score[i] # best_score_

\* C8: a randomized search evaluates exactly n_iter configurations, each once,
\* and every parameter value of every candidate (and of every candidate
\* result) lies in the declared domain of that parameter.
InDomain(c) ==
    /\ Len(c) = Len(param_space)
    /\ \A k \in 1..Len(c) : c[k] \in Domain(param_space[k])

C8_RandomBudgetAndDomain ==
    (strategy = "random" /\ pc # "new") =>
        /\ Len(candidate_params) = n_iter
        /\ \A i \in 1..Len(candidate_params) : InDomain(candidate_params[i])
        /\ Evaluated => EachEvaluatedOnce
        /\ pc = "done" =>
              /\ Len(cv_results_) = n_iter
              /\ \A i \in 1..Len(cv_results_) : InDomain(cv_results_[i].params)
              /\ InDomain(best_params_)

C8_Witness ==
    /\ strategy = "random"
    /\ pc = "done"
    /\ n_iter = MaxIter
    /\ Len(cv_results_) = MaxIter
    /\ \E i, j \in 1..Len(candidate_params) : candidate_params[i] # candidate_params[j]
    /\ \E i \in 1..Len(candidate_params) :
          candidate_params[i][2] = param_space[2].hi

\* C9 as stated: the list of candidate results is sorted by score, descending
\* (failed candidates last), and the best configuration is its first element.
C9_ListSortedByScore ==
    pc = "done" =>
        /\ \A i, j \in 1..Len(cv_results_) :
              (i < j /\ ~IsNaN(cv_results_[j].mean_test_score)) =>
                  /\ ~IsNaN(cv_results_[i].mean_test_score)
                  /\ cv_results_[i].mean_test_score[1] >= cv_results_[j].mean_test_score[1]
        /\ best_params_ = cv_results_[1].params

\* C9 as amended: the candidate results are listed in the order the candidates
\* were generated; each carries a rank, 1 + the number of candidates with a
\* strictly higher mean score (equal scores share a rank, a failed candidate
\* ranks below every successful one); the best configuration is that of the
\* first-generated candidate of rank 1, and it has the maximum score.
Better(x, y) == ~IsNaN(x) /\ (IsNaN(y) \/ x[1] > y[1])

C9_RankedInGenerationOrder ==
    pc = "done" =>
        /\ \A i \in 1..Len(cv_results_) :
              /\ cv_results_[i].params = candidate_params[i]
              /\ cv_results_[i].rank_test_score =
                    1 + Cardinality({j \in 1..Len(cv_results_) :
                            Better(cv_results_[j].mean_test_score,
                                   cv_results_[i].mean_test_score)})
        /\ best_index_ \in 1..Len(cv_results_)
        /\ cv_results_[best_index_].rank_test_score = 1
        /\ \A j \in 1..Len(cv_results_) :
              cv_results_[j].rank_test_score = 1 => best_index_ <= j
        /\ best_params_ = cv_results_[best_index_].params
        /\ best_score_ = cv_results_[best_index_].mean_test_score

C9_Witness ==
    /\ pc = "done"
    /\ Len(cv_results_) = 4
    /\ best_index_ = 2
    /\ cv_results_[4].rank_test_score = 1
    /\ cv_results_[1].rank_test_score = 3
    /\ IsNaN(cv_results_[3].mean_test_score)

\* C10: for fixed candidates and scores the winning configuration is the same
\* for every order in which the workers finish the candidates: it is the
\* configuration of the first-generated candidate among those of maximum score.
C10_WinnerIndependentOfOrder ==
    pc = "done" =>
        \E b \in Succeeded :
            /\ \A j \in Succeeded : cv_score[j][1] <= cv_score[b][1]
            /\ \A j \in Succeeded : cv_score[j][1] = cv_score[b][1] => b <= j
            /\ best_params_ = candidate_params[b]
            /\ best_estimator_.params = candidate_params[b]
            /\ best_score_ = cv_score[b]

C10_Witness ==
    /\ pc = "done"
    /\ n_evaluated = 4
    /\ out_of_order
    /\ best_index_ = 2
    /\ cv_score[4] = cv_score[2]
    /\ cv_score[1] # cv_score[2]

\* C12 as stated: a candidate whose training failed is listed with a score
\* that is a number below the score of every candidate that succeeded
\* (negative infinity).
C12_FailedCandidateScoresMinusInfinity ==
    pc = "done" =>
        \A i \in 1..Len(cv_results_) :
            IsNaN(cv_score[i]) =>
                /\ ~IsNaN(cv_results_[i].mean_test_score)
                /\ \A j \in Succeeded :
                      cv_results_[i].mean_test_score[1] < cv_results_[j].mean_test_score[1]

\* C12 as amended: when the training of a candidate fails, every other
\* candidate is still scored; the failed candidate is listed with score nan
\* (error_score), ranks below every candidate that succeeded and is not the
\* best; fit raises only when every candidate failed.
C12_FailedCandidateIsNaNRankedLast ==
    /\ pc = "done" =>
          /\ Succeeded # {}
          /\ Len(cv_results_) = Len(candidate_params)
          /\ \A i \in 1..Len(cv_results_) :
                /\ cv_results_[i].mean_test_score = cv_score[i]
                /\ IsNaN(cv_score[i]) =>
                      /\ IsNaN(cv_results_[i].mean_test_score)
                      /\ best_index_ # i
                      /\ \A j \in Succeeded :
                            cv_results_[i].rank_test_score > cv_results_[j].rank_test_score
    /\ pc = "error" => (Succeeded = {} /\ cv_results_ = <<>>)

C12_Witness ==
    /\ pc = "done"
    /\ Len(cv_results_) = 3
    /\ IsNaN(cv_results_[1].mean_test_score)
    /\ cv_results_[2].mean_test_score = <<0>>
    /\ cv_results_[3].mean_test_score = <<MaxScore>>
    /\ best_index_ = 3

\* C16: with the evaluations running in parallel workers no result is lost:
\* whatever the order the workers finish in, the collected list holds exactly
\* the result of every candidate evaluated so far, and the final list holds
\* one result per candidate, its own.
C16_NoLostUpdate ==
    /\ DOMAIN out = finished
    /\ Cardinality(DOMAIN out) = n_evaluated
    /\ \A i \in DOMAIN out : out[i] = cv_score[i]
    /\ pc = "done" =>
          /\ Len(cv_results_) = n_evaluated
          /\ \A i \in 1..Len(cv_results_) :
                /\ cv_results_[i].params = candidate_params[i]
                /\ cv_results_[i].mean_test_score = cv_score[i]

C16_Witness ==
    /\ pc = "done"
    /\ strategy = "random"
    /\ out_of_order
    /\ n_evaluated = MaxIter
    /\ Len(cv_results_) = MaxIter
    /\ cv_results_[1].mean_test_score # cv_results_[2].mean_test_score

\* C18 as stated: every search eventually reaches a completed state in which
\* every candidate has a recorded result and a best configuration is selected.
C18_EventuallyBestSelected ==
    <>(pc = "done" /\ Len(cv_results_) = Len(candidate_params) /\ best_index_ > 0)

\* the state fit ends in
Completed ==
    \/ /\ pc = "done"
       /\ finished = 1..Len(candidate_params)
       /\ Len(cv_results_) = Len(candidate_params)
       /\ best_index_ \in Succeeded
       /\ best_params_ = candidate_params[best_index_]
    \/ /\ pc = "error"
       /\ finished = 1..Len(candidate_params)
       /\ Succeeded = {}
       /\ best_index_ = 0

\* C18 as amended: every search terminates: once every evaluation has
\* finished or failed, fit either completes, with a recorded result for every
\* candidate and a best configuration selected, or, when every candidate
\* failed, raises without selecting one; it stays in that state.
C18_EventuallyCompleted == <>[]Completed

C18_Witness ==
    /\ Completed
    /\ pc = "done"
    /\ strategy = "random"
    /\ param_space = forest_distributions
    /\ n_evaluated = MaxIter
    /\ \E i \in 1..MaxIter : IsNaN(cv_score[i])

====
